---- MODULE Spec2Model ----
(***************************************************************************)
(* A model of the gmrs belief-propagation core: the factor graph builder,  *)
(* the factor graph with its direct slot handles (`senders`), variable     *)
(* freezing, cloning and the parallel message-passing loop.                *)
(*                                                                         *)
(* Indices are the source's 0-based indices; a TLA+ sequence s holds the   *)
(* element of index i at s[i + 1].                                         *)
(*                                                                         *)
(* A `receivers` vector is modelled with its storage: `gen` counts how     *)
(* often its buffer has been relocated, `cap` is its capacity and `data`   *)
(* its elements.  A raw pointer into it (an element of `senders`) is the   *)
(* record [g, side, node, gen, off]: graph, side ("v" or "f"), node index, *)
(* the generation of the buffer it was taken from and the slot.  A pointer *)
(* whose generation is not the buffer's current one designates released    *)
(* storage.                                                                *)
(*                                                                         *)
(* Messages are integers: the Ising max-product rules are evaluated in     *)
(* exact arithmetic on integer log-potentials.                             *)
(***************************************************************************)
EXTENDS Integers, Sequences, FiniteSets, TLC

VARIABLES
    stage,      \* "builder" while graphs[1] is a FactorGraphBuilder, "graph" after build()
    ptype,      \* the payload types F, V of the builder: "Ising" or "Fake"
    graphs,     \* graphs[1]: the builder / built graph; graphs[2]: its clone, if any
    initSeed,   \* the state the message initializer's generator started from
    initCalls,  \* number of message_initializer() calls made so far
    freezes,    \* number of freeze_variable calls made so far
    runs,       \* number of run_message_passing_parallel calls made so far
    last,       \* the last operation called and what it returned
    run         \* the state of the run_message_passing_parallel call in progress

vars == <<stage, ptype, graphs, initSeed, initCalls, freezes, runs, last, run>>

----------------------------------------------------------------------------
(* Bounds of the model *)

MaxVars == 2
MaxFactors == 2
MaxListLen == 2
MaxFreezes == 2
MaxClones == 1
MaxSeed == 0
MaxIter == 3
MaxThreshold == 2
MaxRuns == 1
MaxSeedMP == 1
MaxFactorsMP == 1
MaxFreezesMP == 1
MaxGamma == 0
MaxIterClone == 2
MaxRunsClone == 2
ThresholdClone == 1
MaxMessageClamp == 2
MaxGammaClamp == 1
MaxBetaClamp == 2
MaxSendsClamp == 2
MaxDegreePayload == 3
MaxRngPayload == 1
MaxVarsTree == 3
MaxFactorsTree == 2
MaxIterTree == 6
MaxSamples == 2
MaxIterAgain == 3

(* sample_to_message's surrogate of an infinite log-ratio, 1e30 in the     *)
(* source, scaled to fit the model's integers; it exceeds every sum of     *)
(* other messages the model can form.                                       *)
ClampMagnitude == 1000

(* f64::MAX, the initial last_discrepancy; it exceeds every discrepancy    *)
(* the model can form.                                                      *)
F64Max == 1000000
\* the least integer x with 1 - sigmoid(x) < 1e-8
SigmoidOne == 19

----------------------------------------------------------------------------
(* Helpers *)

Max(a, b) == IF a > b THEN a ELSE b

Abs(a) == IF a < 0 THEN -a ELSE a

Last(s) == s[Len(s)]

SeqsUpTo(S, n) == UNION {[1..k -> S] : k \in 0..n}

\* `let x = e; F(x)`: e is evaluated once, before F uses it
Bind(e, F(_)) == CHOOSE r \in {F(x) : x \in {e}} : TRUE

----------------------------------------------------------------------------
(* Vec<Message> with its storage *)

EmptyVec == [gen |-> 0, cap |-> 0, data |-> <<>>]

\* RawVec's amortized growth: max(2 * cap, 4) for a full vector
GrowCap(cap) == Max(2 * cap, 4)

\* Vec::push; `moved` tells whether a reallocation relocates the buffer
VecPush(vec, x, moved) ==
    IF Len(vec.data) = vec.cap
    THEN [gen  |-> IF vec.cap > 0 /\ moved THEN vec.gen + 1 ELSE vec.gen,
          cap  |-> GrowCap(vec.cap),
          data |-> Append(vec.data, x)]
    ELSE [vec EXCEPT !.data = Append(@, x)]

\* Vec::clone: a new buffer of exactly the length
VecClone(vec) == [gen |-> 0, cap |-> Len(vec.data), data |-> vec.data]

NullPtr == [g |-> 0, side |-> "v", node |-> 0, gen |-> 0, off |-> 0]

\* (a variant of the address that is always the one of slot 0)
PtrToFirstSlot(gi, side, node, vec, off) ==
    [g |-> gi, side |-> side, node |-> node, gen |-> vec.gen, off |-> 0]

\* the address of slot `off` of the receivers of node `node` on side `side` of graph gi
PtrTo(gi, side, node, vec, off) ==
    [g |-> gi, side |-> side, node |-> node, gen |-> vec.gen, off |-> off]

----------------------------------------------------------------------------
(* Payloads *)

\* IsingFactor::<MaxProduct>::new(coupling, first_spin_b, second_spin_b); T is
\* the message passing type the factor is parameterised with
Coupling(J, b1, b2) ==
    [kind |-> "Coupling", T |-> "MaxProduct",
     log_puu |-> J + b1 + b2, log_pud |-> -J + b1 - b2,
     log_pdu |-> -J - b1 + b2, log_pdd |-> J - b1 - b2]

\* IsingFactor::<SumProduct>::new(coupling, first_spin_b, second_spin_b)
SumProductCoupling(J, b1, b2) == [Coupling(J, b1, b2) EXCEPT !.T = "SumProduct"]

UnitFactor(m) == [kind |-> "UnitFactor", m |-> m]

FakeFactor(d) == [kind |-> "FakeFactor", deg |-> d]

\* Factor::degree
FactorDegree(f) ==
    CASE f.kind = "Coupling" -> 2
      [] f.kind = "UnitFactor" -> 1
      [] f.kind = "FakeFactor" -> f.deg

\* (a variant of sample_to_message with messages of magnitude 1)
SampleToMessageUnit(pt, s) == s

\* Variable::sample_to_message; IsingVariable's panics on a sample that is
\* neither 1 nor -1
SampleToMessage(pt, s) ==
    IF pt = "Ising"
    THEN CASE s = 1 -> ClampMagnitude
           [] s = -1 -> -ClampMagnitude
           [] OTHER -> "panic"
    ELSE s

\* Factor::from_message
FromMessage(pt, m) == IF pt = "Ising" THEN UnitFactor(m) ELSE FakeFactor(1)

\* the message initializer: a closure over a generator, so its n-th value is
\* a function of the generator's initial state
InitMessage(seed, n) == ((seed + 3 * n) % 5) - 2

----------------------------------------------------------------------------
(* Nodes *)

NewVariableNode ==
    [fac_node_indices |-> <<>>, fac_node_receiver_indices |-> <<>>,
     messages |-> <<>>, senders |-> <<>>, receivers |-> EmptyVec]

NewFactorNode(f) ==
    [factor |-> f, var_node_indices |-> <<>>, var_node_receiver_indices |-> <<>>,
     messages |-> <<>>, senders |-> <<>>, receivers |-> EmptyVec]

VarDegree(v) == Len(v.receivers.data)

FacDegree(f) == Len(f.receivers.data)

\* FactorGraphBuilder::new_with_variables (new() is the case n = 0)
NewBuilder(n) == [factors |-> <<>>, variables |-> [i \in 1..n |-> NewVariableNode]]

----------------------------------------------------------------------------
(* FactorGraphBuilder *)

\* the slot a new edge gets in a node's receivers, the push being done:
\* `variable_recivers_number - 1`, `factor_recivers_number - 1`
\* (a variant that forgets the `- 1`)
NewSlotLength(recv) == Len(recv.data)

NewSlot(recv) == Len(recv.data) - 1

\* (a variant of the loop body that gives the second initializer value to the
\* factor's incoming slot and the first to the variable's)
AddEdgeExchanged(b, index, seed, c, moved) ==
    LET fi == Len(b.factors)
        last_factor == b.factors[fi]
        variable == b.variables[index + 1]
        factor_message == InitMessage(seed, c + 1)
        variable_message == InitMessage(seed, c)
        frecv == VecPush(last_factor.receivers, factor_message, moved)
        vrecv == VecPush(variable.receivers, variable_message, moved)
        f2 == [last_factor EXCEPT
                 !.senders = Append(@, NullPtr),
                 !.receivers = frecv,
                 !.messages = Append(@, variable_message),
                 !.var_node_indices = Append(@, index),
                 !.var_node_receiver_indices = Append(@, NewSlot(vrecv))]
        v2 == [variable EXCEPT
                 !.senders = Append(@, NullPtr),
                 !.messages = Append(@, factor_message),
                 !.receivers = vrecv,
                 !.fac_node_indices = Append(@, fi - 1),
                 !.fac_node_receiver_indices = Append(@, NewSlot(frecv))]
    IN [b EXCEPT !.factors[fi] = f2, !.variables[index + 1] = v2]

\* one pass of add_factor's loop body for the neighbour `index`, the new
\* factor being the last of b.factors; c is the number of initializer calls
\* made before it
AddEdge(b, index, seed, c, moved) ==
    LET fi == Len(b.factors)
        last_factor == b.factors[fi]
        variable == b.variables[index + 1]
        factor_message == InitMessage(seed, c)
        variable_message == InitMessage(seed, c + 1)
        frecv == VecPush(last_factor.receivers, factor_message, moved)
        vrecv == VecPush(variable.receivers, variable_message, moved)
        f2 == [last_factor EXCEPT
                 !.senders = Append(@, NullPtr),
                 !.receivers = frecv,
                 !.messages = Append(@, variable_message),
                 !.var_node_indices = Append(@, index),
                 !.var_node_receiver_indices = Append(@, NewSlot(vrecv))]
        v2 == [variable EXCEPT
                 !.senders = Append(@, NullPtr),
                 !.messages = Append(@, factor_message),
                 !.receivers = vrecv,
                 !.fac_node_indices = Append(@, fi - 1),
                 !.fac_node_receiver_indices = Append(@, NewSlot(frecv))]
    IN [b EXCEPT !.factors[fi] = f2, !.variables[index + 1] = v2]

\* add_factor's loop from the k-th neighbour on
RECURSIVE AddEdges(_, _, _, _, _, _)
AddEdges(b, var_indices, k, seed, c, moved) ==
    IF k > Len(var_indices)
    THEN [g |-> b, calls |-> c, res |-> <<"Ok">>]
    ELSE IF var_indices[k] >= Len(b.variables)
    THEN [g |-> b, calls |-> c,
          res |-> <<"OutOfRangeVariable", Len(b.variables), var_indices[k]>>]
    ELSE AddEdges(AddEdge(b, var_indices[k], seed, c, moved),
                  var_indices, k + 1, seed, c + 2, moved)

\* (a variant of add_factor that appends the factor node before it checks
\* the degree)
AddFactorOpPushFirst(b, factor, var_indices, seed, c, moved) ==
    LET pushed == [b EXCEPT !.factors = Append(@, NewFactorNode(factor))]
    IN IF FactorDegree(factor) # Len(var_indices)
       THEN [g |-> pushed, calls |-> c,
             res |-> <<"DegreeError", FactorDegree(factor), var_indices>>]
       ELSE AddEdges(pushed, var_indices, 1, seed, c, moved)

\* (a variant of add_factor that reports the last index out of range of the
\* list instead of the first)
AddFactorOpLastOffender(b, factor, var_indices, seed, c, moved) ==
    IF FactorDegree(factor) # Len(var_indices)
    THEN [g |-> b, calls |-> c,
          res |-> <<"DegreeError", FactorDegree(factor), var_indices>>]
    ELSE LET r == AddEdges([b EXCEPT !.factors = Append(@, NewFactorNode(factor))],
                           var_indices, 1, seed, c, moved)
             bad == {k \in 1..Len(var_indices) : var_indices[k] >= Len(b.variables)}
         IN IF bad = {} THEN r
            ELSE [r EXCEPT !.res = <<"OutOfRangeVariable", Len(b.variables),
                                    var_indices[CHOOSE k \in bad : \A j \in bad : j <= k]>>]

\* FactorGraphBuilder::add_factor: the builder it leaves, the number of
\* initializer calls made so far and the value returned
AddFactorOp(b, factor, var_indices, seed, c, moved) ==
    IF FactorDegree(factor) # Len(var_indices)
    THEN [g |-> b, calls |-> c,
          res |-> <<"DegreeError", FactorDegree(factor), var_indices>>]
    ELSE AddEdges([b EXCEPT !.factors = Append(@, NewFactorNode(factor))],
                  var_indices, 1, seed, c, moved)

\* (a variant of add_variable whose node already names factor 0)
AddVariableOpAttached(b) ==
    [b EXCEPT !.variables =
        Append(@, [NewVariableNode EXCEPT !.fac_node_indices = <<0>>])]

\* FactorGraphBuilder::add_variable
AddVariableOp(b) == [b EXCEPT !.variables = Append(@, NewVariableNode)]

\* (a variant of FactorNode::init_senders that binds sender k to slot k of the
\* variable instead of the recorded receiver index)
FactorInitSendersByPosition(gi, f, variables) ==
    [f EXCEPT !.senders =
        [k \in 1..Len(f.var_node_indices) |->
            PtrTo(gi, "v", f.var_node_indices[k],
                  variables[f.var_node_indices[k] + 1].receivers, k - 1)]]

\* FactorNode::init_senders
FactorInitSenders(gi, f, variables) ==
    [f EXCEPT !.senders =
        [k \in 1..Len(f.var_node_indices) |->
            PtrTo(gi, "v", f.var_node_indices[k],
                  variables[f.var_node_indices[k] + 1].receivers,
                  f.var_node_receiver_indices[k])]]

\* (a variant of VariableNode::init_senders that binds every sender to the
\* first slot of the factor)
VariableInitSendersFirstSlot(gi, v, factors) ==
    [v EXCEPT !.senders =
        [k \in 1..Len(v.fac_node_indices) |->
            PtrTo(gi, "f", v.fac_node_indices[k],
                  factors[v.fac_node_indices[k] + 1].receivers, 0)]]

\* VariableNode::init_senders
VariableInitSenders(gi, v, factors) ==
    [v EXCEPT !.senders =
        [k \in 1..Len(v.fac_node_indices) |->
            PtrTo(gi, "f", v.fac_node_indices[k],
                  factors[v.fac_node_indices[k] + 1].receivers,
                  v.fac_node_receiver_indices[k])]]

\* the linking pass of build() and clone()
LinkSenders(gi, g) ==
    [factors   |-> [i \in 1..Len(g.factors) |->
                      FactorInitSenders(gi, g.factors[i], g.variables)],
     variables |-> [i \in 1..Len(g.variables) |->
                      VariableInitSenders(gi, g.variables[i], g.factors)]]

\* FactorGraphBuilder::build
BuildOp(gi, b) == LinkSenders(gi, b)

----------------------------------------------------------------------------
(* FactorGraph: freeze_variable and clone *)

\* (a variant that never re-points)
ReallocatedNever(receivers_cap, receivers_len) == FALSE

\* freeze_variable's test for a reallocation of the variable's receivers
Reallocated(receivers_cap, receivers_len) == receivers_cap = receivers_len

\* freeze_variable's loop that re-points the senders of the factors adjacent
\* to `variable` at its receivers, from slot j (0-based) on
RECURSIVE RepointSenders(_, _, _, _, _)
RepointSenders(gi, factors, var_index, variable, j) ==
    IF j >= Len(variable.receivers.data)
          \/ j >= Len(variable.fac_node_indices)
          \/ j >= Len(variable.fac_node_receiver_indices)
    THEN factors
    ELSE LET i  == variable.fac_node_indices[j + 1]
             ri == variable.fac_node_receiver_indices[j + 1]
             r  == PtrTo(gi, "v", var_index, variable.receivers, j)
         IN RepointSenders(gi, [factors EXCEPT ![i + 1].senders[ri + 1] = r],
                           var_index, variable, j + 1)

\* (a variant of freeze_variable that records the variable's slot after the
\* push, the length instead of the last index)
FreezeOpSlotAfterPush(gi, g, pt, value, var_index, moved) ==
    LET message == SampleToMessage(pt, value)
        factor == FromMessage(pt, message)
        pushed == [g EXCEPT !.factors = Append(@, NewFactorNode(factor))]
        fi == Len(pushed.factors)
    IN IF var_index >= Len(g.variables)
       THEN [g |-> pushed,
             res |-> <<"OutOfRangeVariable", Len(g.variables), var_index>>]
       ELSE
         LET variable_node == g.variables[var_index + 1]
             receivers_len == Len(variable_node.receivers.data)
             receivers_cap == variable_node.receivers.cap
             frecv == VecPush(EmptyVec, message, moved)
             vrecv == VecPush(variable_node.receivers, message, moved)
             factor_node ==
                 [pushed.factors[fi] EXCEPT
                    !.receivers = frecv,
                    !.messages = Append(@, message),
                    !.var_node_indices = Append(@, var_index),
                    !.var_node_receiver_indices = Append(@, Len(vrecv.data)),
                    !.senders = Append(@, PtrTo(gi, "v", var_index, vrecv,
                                                Len(vrecv.data) - 1))]
             v2 == [variable_node EXCEPT
                    !.receivers = vrecv,
                    !.senders = Append(@, PtrTo(gi, "f", fi - 1, frecv,
                                                Len(frecv.data) - 1)),
                    !.messages = Append(@, message),
                    !.fac_node_indices = Append(@, fi - 1),
                    !.fac_node_receiver_indices = Append(@, 0)]
             factors2 == [pushed.factors EXCEPT ![fi] = factor_node]
             factors3 == IF Reallocated(receivers_cap, receivers_len)
                         THEN RepointSenders(gi, factors2, var_index, v2, 0)
                         ELSE factors2
         IN [g |-> [factors |-> factors3,
                    variables |-> [g.variables EXCEPT ![var_index + 1] = v2]],
             res |-> <<"Ok">>]

\* FactorGraph::freeze_variable on graph g, which is graphs[gi]
FreezeOp(gi, g, pt, value, var_index, moved) ==
    LET message == SampleToMessage(pt, value)
        factor == FromMessage(pt, message)
        pushed == [g EXCEPT !.factors = Append(@, NewFactorNode(factor))]
        fi == Len(pushed.factors)
    IN IF var_index >= Len(g.variables)
       THEN [g |-> pushed,
             res |-> <<"OutOfRangeVariable", Len(g.variables), var_index>>]
       ELSE
         LET variable_node == g.variables[var_index + 1]
             receivers_len == Len(variable_node.receivers.data)
             receivers_cap == variable_node.receivers.cap
             frecv == VecPush(EmptyVec, message, moved)
             vrecv == VecPush(variable_node.receivers, message, moved)
             factor_node ==
                 [pushed.factors[fi] EXCEPT
                    !.receivers = frecv,
                    !.messages = Append(@, message),
                    !.var_node_indices = Append(@, var_index),
                    !.var_node_receiver_indices = Append(@, receivers_len),
                    !.senders = Append(@, PtrTo(gi, "v", var_index, vrecv,
                                                Len(vrecv.data) - 1))]
             v2 == [variable_node EXCEPT
                    !.receivers = vrecv,
                    !.senders = Append(@, PtrTo(gi, "f", fi - 1, frecv,
                                                Len(frecv.data) - 1)),
                    !.messages = Append(@, message),
                    !.fac_node_indices = Append(@, fi - 1),
                    !.fac_node_receiver_indices = Append(@, 0)]
             factors2 == [pushed.factors EXCEPT ![fi] = factor_node]
             factors3 == IF Reallocated(receivers_cap, receivers_len)
                         THEN RepointSenders(gi, factors2, var_index, v2, 0)
                         ELSE factors2
         IN [g |-> [factors |-> factors3,
                    variables |-> [g.variables EXCEPT ![var_index + 1] = v2]],
             res |-> <<"Ok">>]

\* the Clone of a factor node: a deep copy of every buffer, the senders
\* copied as the addresses they are
FactorNodeClone(node) == [node EXCEPT !.receivers = VecClone(@)]

\* freeze_variable from its first line: the message of the sample, the
\* factor made of it and the test of its degree precede every change
FreezeVariableCall(gi, g, pt, value, var_index, moved) ==
    IF pt = "Ising" /\ value \notin {1, -1}
    THEN [g |-> g, res |-> <<"panic", "Unsupported sample value">>]
    ELSE IF FactorDegree(FromMessage(pt, SampleToMessage(pt, value))) # 1
    THEN [g |-> g, res |-> <<"panic", "Factor degree must be 1">>]
    ELSE FreezeOp(gi, g, pt, value, var_index, moved)

\* the derived Clone of a variable node
VariableNodeClone(node) == [node EXCEPT !.receivers = VecClone(@)]

\* the clones of the two node lists
CloneNodes(g) ==
    [factors   |-> [i \in 1..Len(g.factors) |-> FactorNodeClone(g.factors[i])],
     variables |-> [i \in 1..Len(g.variables) |->
                      VariableNodeClone(g.variables[i])]]

\* (a clone without the linking pass)
CloneOpNoRelink(gi, g) == CloneNodes(g)

\* FactorGraph::clone, the clone becoming graphs[gi]
CloneOp(gi, g) == LinkSenders(gi, CloneNodes(g))

----------------------------------------------------------------------------
(* Reading and writing through a raw pointer *)

NodesOf(g, side) == IF side = "v" THEN g.variables ELSE g.factors

\* in the graphs gs, the pointer designates a slot of storage that is still
\* allocated
LiveIn(gs, h) ==
    /\ h.g \in DOMAIN gs
    /\ h.node >= 0
    /\ h.node < Len(NodesOf(gs[h.g], h.side))
    /\ LET recv == NodesOf(gs[h.g], h.side)[h.node + 1].receivers
       IN h.gen = recv.gen /\ h.off >= 0 /\ h.off < Len(recv.data)

\* `**ptr`: the value of the slot, or "released" when the storage is gone
DerefIn(gs, h) ==
    IF LiveIn(gs, h)
    THEN NodesOf(gs[h.g], h.side)[h.node + 1].receivers.data[h.off + 1]
    ELSE "released"

\* `**ptr = x`: a write to released storage reaches no vector
WriteIn(gs, h, x) ==
    IF ~LiveIn(gs, h) THEN gs
    ELSE IF h.side = "v"
    THEN [gs EXCEPT ![h.g].variables[h.node + 1].receivers.data[h.off + 1] = x]
    ELSE [gs EXCEPT ![h.g].factors[h.node + 1].receivers.data[h.off + 1] = x]

Live(h) == LiveIn(graphs, h)

Deref(h) == DerefIn(graphs, h)

\* h designates slot `off` of the receivers of node `node` on side `side` of graph gi
Designates(h, gi, side, node, off) ==
    /\ Live(h)
    /\ h.g = gi /\ h.side = side /\ h.node = node /\ h.off = off

----------------------------------------------------------------------------
(* Payload rules (Ising, max-product) *)

\* IsingMessage::discrepancy
Discrepancy(a, b) == Abs(a - b)

\* MaxProduct::factor_message_update; nu_up - nu_down = message, so the
\* difference of the two maxima is taken with nu_down subtracted from each
FactorMessageUpdate(message, prev_message, log_p_ou_iu, log_p_ou_id, log_p_od_iu, log_p_od_id, parameters) ==
    (1 - parameters.gamma)
        * (Max(log_p_ou_iu + message, log_p_ou_id)
             - Max(log_p_od_iu + message, log_p_od_id))
      + parameters.gamma * prev_message

\* log_sum_exponents on the integer grid of the model's messages:
\* ln(1 + exp(d)) for d <= 0 to the nearest integer is 1 at d = 0 (ln 2) and
\* 0 below (at most ln(1 + 1/e) < 1/2)
LogSumExponents(x, y) ==
    IF x > y
    THEN x + (IF y - x = 0 THEN 1 ELSE 0)
    ELSE y + (IF x - y = 0 THEN 1 ELSE 0)

\* SumProduct::factor_message_update: MaxProduct's with log_sum_exponents in
\* place of max and the log-potentials scaled by beta
SumProductFactorMessageUpdate(message, prev_message, log_p_ou_iu, log_p_ou_id, log_p_od_iu, log_p_od_id, parameters) ==
    (1 - parameters.gamma)
        * (LogSumExponents(parameters.beta * log_p_ou_iu + message,
                           parameters.beta * log_p_ou_id)
             - LogSumExponents(parameters.beta * log_p_od_iu + message,
                               parameters.beta * log_p_od_id))
      + parameters.gamma * prev_message

\* (a variant of send_messages that damps the clamp's message)
FactorSendMessagesDamped(f, src, dst, parameters) ==
    [dst EXCEPT ![1] = (1 - parameters.gamma) * f.m + parameters.gamma * @]

\* (a variant of send_messages in which each slot answers its own message)
FactorSendMessagesEcho(f, src, dst, parameters) ==
    [dst EXCEPT ![1] = FactorMessageUpdate(src[1], dst[1], f.log_puu, f.log_pud,
                                           f.log_pdu, f.log_pdd, parameters),
                ![2] = FactorMessageUpdate(src[2], dst[2], f.log_puu, f.log_pdu,
                                           f.log_pud, f.log_pdd, parameters)]

\* IsingFactor::send_messages: the new dst
FactorSendMessages(f, src, dst, parameters) ==
    IF f.kind = "Coupling"
    THEN LET update(m, prev, ou_iu, ou_id, od_iu, od_id) ==
                 IF f.T = "SumProduct"
                 THEN SumProductFactorMessageUpdate(m, prev, ou_iu, ou_id,
                                                    od_iu, od_id, parameters)
                 ELSE FactorMessageUpdate(m, prev, ou_iu, ou_id, od_iu, od_id,
                                          parameters)
             d1 == update(src[1], dst[2], f.log_puu, f.log_pdu, f.log_pud, f.log_pdd)
             d0 == update(src[2], dst[1], f.log_puu, f.log_pud, f.log_pdu, f.log_pdd)
         IN [dst EXCEPT ![2] = d1, ![1] = d0]
    ELSE [dst EXCEPT ![1] = f.m]

\* the indices at which IsingFactor::send_messages reads src or reads or
\* writes dst
FactorSendIndices(f) == IF f.kind = "Coupling" THEN {0, 1} ELSE {0}

\* the indices at which IsingFactor::marginal reads messages: get_unchecked(0)
\* and get_unchecked(1) in both arms
FactorMarginalIndices(f) == {0, 1}

RECURSIVE SumSeq(_)
SumSeq(s) == IF s = <<>> THEN 0 ELSE s[1] + SumSeq(Tail(s))

\* (a variant of send_messages that excludes no slot)
VariableSendMessagesAll(src, dst, parameters) ==
    [k \in 1..Len(dst) |-> (1 - parameters) * SumSeq(src) + parameters * dst[k]]

\* IsingVariable::send_messages: the new dst
VariableSendMessages(src, dst, parameters) ==
    LET sum_all == SumSeq(src)
    IN [k \in 1..Len(dst) |->
          IF k <= Len(src)
          THEN (1 - parameters) * (sum_all - src[k]) + parameters * dst[k]
          ELSE dst[k]]

\* get_standard_factor_scheduler(gamma)
StandardFactorScheduler(gamma, i) == [beta |-> 1, gamma |-> gamma]

\* get_standard_variable_scheduler(gamma)
StandardVariableScheduler(gamma, i) == gamma

----------------------------------------------------------------------------
(* The three steps of a node's task in a phase *)

NodeOf(gs, gi, side, n) == NodesOf(gs[gi], side)[n]

\* (a variant of eval_messages with the two arrays exchanged: the payload
\* reads `messages` and writes `receivers`)
EvalMessagesExchanged(gs, gi, side, n, parameters) ==
    IF side = "f"
    THEN [gs EXCEPT ![gi].factors[n].receivers.data =
            FactorSendMessages(gs[gi].factors[n].factor,
                               gs[gi].factors[n].messages, @, parameters)]
    ELSE [gs EXCEPT ![gi].variables[n].receivers.data =
            VariableSendMessages(gs[gi].variables[n].messages, @, parameters)]

\* FactorNode::eval_messages / VariableNode::eval_messages of the n-th node
EvalMessages(gs, gi, side, n, parameters) ==
    IF side = "f"
    THEN [gs EXCEPT ![gi].factors[n].messages =
            FactorSendMessages(gs[gi].factors[n].factor,
                               gs[gi].factors[n].receivers.data, @, parameters)]
    ELSE [gs EXCEPT ![gi].variables[n].messages =
            VariableSendMessages(gs[gi].variables[n].receivers.data, @, parameters)]

\* eval_discrepancy's loop from the k-th message on
RECURSIVE DiscrepancyFrom(_, _, _, _)
DiscrepancyFrom(gs, node, k, max_discrepancy) ==
    IF k > Len(node.messages) \/ k > Len(node.senders)
    THEN max_discrepancy
    ELSE LET discrepancy == Discrepancy(node.messages[k], DerefIn(gs, node.senders[k]))
         IN DiscrepancyFrom(gs, node, k + 1,
                            IF max_discrepancy < discrepancy
                            THEN discrepancy ELSE max_discrepancy)

\* send_messages' loop from the k-th message on
RECURSIVE SendFrom(_, _, _)
SendFrom(gs, node, k) ==
    IF k > Len(node.messages) \/ k > Len(node.senders)
    THEN gs
    ELSE SendFrom(WriteIn(gs, node.senders[k], node.messages[k]), node, k + 1)

\* (a variant of eval_discrepancy that measures after the delivery)
EvalDiscrepancyDelivered(gs, gi, side, n) ==
    DiscrepancyFrom(SendFrom(gs, NodeOf(gs, gi, side, n), 1),
                    NodeOf(gs, gi, side, n), 1, 0)

\* FactorNode::eval_discrepancy / VariableNode::eval_discrepancy
EvalDiscrepancy(gs, gi, side, n) == DiscrepancyFrom(gs, NodeOf(gs, gi, side, n), 1, 0)

\* (a variant of send_messages that moves the staged messages out of the node)
SendMessagesDrained(gs, gi, side, n) ==
    IF side = "f"
    THEN [SendFrom(gs, NodeOf(gs, gi, side, n), 1)
             EXCEPT ![gi].factors[n].messages = <<>>]
    ELSE [SendFrom(gs, NodeOf(gs, gi, side, n), 1)
             EXCEPT ![gi].variables[n].messages = <<>>]

\* FactorNode::send_messages / VariableNode::send_messages
SendMessages(gs, gi, side, n) == SendFrom(gs, NodeOf(gs, gi, side, n), 1)

\* the map closure of a phase run to its end for the n-th node
NodeTask(gs, gi, side, n, parameters) ==
    Bind(EvalMessages(gs, gi, side, n, parameters),
         LAMBDA g1 : [gs |-> SendMessages(g1, gi, side, n),
                      disc |-> EvalDiscrepancy(g1, gi, side, n)])

\* the phase run by one thread: the nodes named by `order`, one after another
RECURSIVE SequentialPhase(_, _, _, _, _, _)
SequentialPhase(gs, gi, side, order, parameters, disc) ==
    IF order = <<>>
    THEN [gs |-> gs, disc |-> disc]
    ELSE Bind(NodeTask(gs, gi, side, Head(order), parameters),
              LAMBDA t : SequentialPhase(t.gs, gi, side, Tail(order), parameters,
                                         Max(disc, t.disc)))

\* the nodes of a list in list order
ListOrder(nodes) == [n \in 1..Len(nodes) |-> n]

\* one iteration of the loop of run_message_passing_parallel, on one thread
SequentialIteration(gs, gi, fgamma, vgamma, i) ==
    Bind(SequentialPhase(gs, gi, "f", ListOrder(gs[gi].factors),
                         StandardFactorScheduler(fgamma, i), 0),
         LAMBDA f :
            Bind(SequentialPhase(f.gs, gi, "v", ListOrder(gs[gi].variables),
                                 StandardVariableScheduler(vgamma, i), 0),
                 LAMBDA v : [gs |-> v.gs, disc |-> Max(f.disc, v.disc)]))

\* the discrepancies of the iterations i .. n - 1 run one after another
RECURSIVE DiscrepancyDynamics(_, _, _, _, _, _)
DiscrepancyDynamics(gs, gi, fgamma, vgamma, i, n) ==
    IF i >= n
    THEN <<>>
    ELSE Bind(SequentialIteration(gs, gi, fgamma, vgamma, i),
              LAMBDA it : <<it.disc>>
                  \o DiscrepancyDynamics(it.gs, gi, fgamma, vgamma, i + 1, n))

\* the memory a step of the task of node n touches: (location, written)
\* pairs, a location being (side, node, array, index)
EvalAccesses(gs, gi, side, n) ==
    LET node == NodeOf(gs, gi, side, n)
    IN {<<<<side, n - 1, "receivers", k - 1>>, FALSE>> :
            k \in 1..Len(node.receivers.data)}
       \cup {<<<<side, n - 1, "messages", k - 1>>, TRUE>> :
            k \in 1..Len(node.messages)}

PtrLoc(h) == <<h.side, h.node, "receivers", h.off>>

DiscAccesses(gs, gi, side, n) ==
    LET node == NodeOf(gs, gi, side, n)
    IN {<<<<side, n - 1, "messages", k - 1>>, FALSE>> : k \in 1..Len(node.messages)}
       \cup {<<PtrLoc(node.senders[k]), FALSE>> : k \in 1..Len(node.senders)}

SendAccesses(gs, gi, side, n) ==
    LET node == NodeOf(gs, gi, side, n)
    IN {<<<<side, n - 1, "messages", k - 1>>, FALSE>> : k \in 1..Len(node.messages)}
       \cup {<<PtrLoc(node.senders[k]), TRUE>> : k \in 1..Len(node.senders)}

----------------------------------------------------------------------------
(* The calls a program makes *)

Idle == [pc |-> "idle"]

Couplings == {Coupling(1, 0, 0), Coupling(-1, 1, 0)}

\* the factors a caller passes to add_factor
Payloads(pt) ==
    IF pt = "Ising"
    THEN Couplings \cup {UnitFactor(1)}
    ELSE {FakeFactor(d) : d \in 0..MaxListLen}

\* the values a caller passes to freeze_variable
SampleValues(pt) == IF pt = "Ising" THEN {1, -1} ELSE {0, 1}

IndexLists == SeqsUpTo(0..MaxVars, MaxListLen)

InitWith(ptypes, seeds, sizes) ==
    /\ stage = "builder"
    /\ ptype \in ptypes
    /\ initSeed \in seeds
    /\ \E n \in sizes :
          /\ graphs = <<NewBuilder(n)>>
          /\ last = [op |-> "new_with_variables", g |-> 1, args |-> <<n>>,
                     res |-> <<"Ok">>]
    /\ initCalls = 0
    /\ freezes = 0
    /\ runs = 0
    /\ run = Idle

Init == InitWith({"Ising", "Fake"}, 0..MaxSeed, 0..MaxVars)

AddVariable ==
    /\ stage = "builder"
    /\ Len(graphs[1].variables) < MaxVars
    /\ graphs' = [graphs EXCEPT ![1] = AddVariableOp(@)]
    /\ last' = [op |-> "add_variable", g |-> 1, args |-> <<>>, res |-> <<"Ok">>]
    /\ UNCHANGED <<stage, ptype, initSeed, initCalls, freezes, runs, run>>

AddFactorWith(factors, lists, limit) ==
    /\ stage = "builder"
    /\ Len(graphs[1].factors) < limit
    /\ \E factor \in factors, var_indices \in lists, moved \in BOOLEAN :
          LET r == AddFactorOp(graphs[1], factor, var_indices, initSeed,
                               initCalls, moved)
          IN /\ graphs' = [graphs EXCEPT ![1] = r.g]
             /\ initCalls' = r.calls
             /\ last' = [op |-> "add_factor", g |-> 1,
                         args |-> <<factor, var_indices>>, res |-> r.res]
    /\ UNCHANGED <<stage, ptype, initSeed, freezes, runs, run>>

AddFactor == AddFactorWith(Payloads(ptype), IndexLists, MaxFactors)

Build ==
    /\ stage = "builder"
    /\ stage' = "graph"
    /\ graphs' = [graphs EXCEPT ![1] = BuildOp(1, @)]
    /\ last' = [op |-> "build", g |-> 1, args |-> <<>>, res |-> <<"Ok">>]
    /\ UNCHANGED <<ptype, initSeed, initCalls, freezes, runs, run>>

\* (a variant of the call whose error holds its two numbers exchanged)
FreezeVariableWithExchanged(indices, limit) ==
    /\ stage = "graph"
    /\ run.pc = "idle"
    /\ freezes < limit
    /\ \E gi \in DOMAIN graphs, value \in SampleValues(ptype),
          var_index \in indices, moved \in BOOLEAN :
          LET r == FreezeOp(gi, graphs[gi], ptype, value, var_index, moved)
          IN /\ graphs' = [graphs EXCEPT ![gi] = r.g]
             /\ last' = [op |-> "freeze_variable", g |-> gi,
                         args |-> <<value, var_index>>,
                         res |-> IF r.res[1] = "Ok" THEN r.res
                                 ELSE <<r.res[1], r.res[3], r.res[2]>>]
    /\ freezes' = freezes + 1
    /\ UNCHANGED <<stage, ptype, initSeed, initCalls, runs, run>>

FreezeVariableWith(indices, limit) ==
    /\ stage = "graph"
    /\ run.pc = "idle"
    /\ freezes < limit
    /\ \E gi \in DOMAIN graphs, value \in SampleValues(ptype),
          var_index \in indices, moved \in BOOLEAN :
          LET r == FreezeOp(gi, graphs[gi], ptype, value, var_index, moved)
          IN /\ graphs' = [graphs EXCEPT ![gi] = r.g]
             /\ last' = [op |-> "freeze_variable", g |-> gi,
                         args |-> <<value, var_index>>, res |-> r.res]
    /\ freezes' = freezes + 1
    /\ UNCHANGED <<stage, ptype, initSeed, initCalls, runs, run>>

FreezeVariable == FreezeVariableWith(0..MaxVars, MaxFreezes)

Clone ==
    /\ stage = "graph"
    /\ run.pc = "idle"
    /\ Len(graphs) < 1 + MaxClones
    /\ \E gi \in DOMAIN graphs :
          /\ graphs' = Append(graphs, CloneOp(Len(graphs) + 1, graphs[gi]))
          /\ last' = [op |-> "clone", g |-> Len(graphs) + 1, args |-> <<gi>>,
                      res |-> <<"Ok">>]
    /\ UNCHANGED <<stage, ptype, initSeed, initCalls, freezes, runs, run>>

----------------------------------------------------------------------------
(* run_message_passing_parallel *)

\* the tasks of a parallel iterator over `nodes`, none started
FreshTasks(nodes) == [n \in 1..Len(nodes) |-> "eval"]

Zeros(nodes) == [n \in 1..Len(nodes) |-> 0]

Side(r) == IF r.pc = "factors" THEN "f" ELSE "v"

\* factor_scheduler(i) in the factor phase, variable_scheduler(i) in the
\* variable phase
Parameters(r) ==
    IF r.pc = "factors"
    THEN StandardFactorScheduler(r.fgamma, r.i)
    ELSE StandardVariableScheduler(r.vgamma, r.i)

\* (a variant of the join that returns once one task has run)
PhaseDoneSome(r) ==
    DOMAIN r.tpc = {} \/ \E n \in DOMAIN r.tpc : r.tpc[n] = "done"

\* the parallel iterator's join: reduce returns once every task has run
PhaseDone(r) == \A n \in DOMAIN r.tpc : r.tpc[n] = "done"

\* .reduce(|| 0f64, |x, y| x.max(y))
RECURSIVE ReduceMax(_, _)
ReduceMax(tdisc, n) ==
    IF n = 0 THEN 0 ELSE Max(ReduceMax(tdisc, n - 1), tdisc[n])

\* (a variant of the test that does not look at the minimum)
ConvergedAtThreshold(max_discrepancy, threshold, i, min_iterations_number) ==
    max_discrepancy < threshold

\* (a variant of the test that compares i, not i + 1, with the minimum)
ConvergedAfterMin(max_discrepancy, threshold, i, min_iterations_number) ==
    max_discrepancy < threshold /\ i >= min_iterations_number

\* the test that ends the loop with Ok
Converged(max_discrepancy, threshold, i, min_iterations_number) ==
    max_discrepancy < threshold /\ i + 1 >= min_iterations_number

\* `for i in 0..max_iterations_number`: whether an iteration follows iteration i
MoreIterations(i, max_iterations_number) == i + 1 < max_iterations_number

\* Ok(MessagePassingInfo { iterations_number: i, .. })
OkResult(i, last_discrepancy, discrepancy_dynamics) ==
    <<"Ok", i, last_discrepancy, discrepancy_dynamics>>

\* (a variant of the error that reports the index of the last iteration)
ErrResultLastIndex(max_iterations_number, last_discrepancy, discrepancy_dynamics) ==
    <<"MessagePassingError", max_iterations_number - 1, last_discrepancy,
      discrepancy_dynamics>>

\* Err(FGError::MessagePassingError { iterations_number: max_iterations_number, .. })
ErrResult(max_iterations_number, last_discrepancy, discrepancy_dynamics) ==
    <<"MessagePassingError", max_iterations_number, last_discrepancy,
      discrepancy_dynamics>>

Thresholds == 0..MaxThreshold

\* the message values of a graph: staged messages and incoming slots
MessageState(g) ==
    [factors   |-> [f \in 1..Len(g.factors) |->
                      <<g.factors[f].messages, g.factors[f].receivers.data>>],
     variables |-> [v \in 1..Len(g.variables) |->
                      <<g.variables[v].messages, g.variables[v].receivers.data>>]]

\* the record of the call before this one
Previous(r) == IF r = Idle THEN Idle ELSE [r EXCEPT !.prev = Idle]

\* the call, the factor phase of iteration 0 beginning unless max_iter is 0
StartRunWith(max_iters, min_iters, thresholds, limit) ==
    /\ stage = "graph"
    /\ run.pc = "idle"
    /\ runs < limit
    /\ \E gi \in DOMAIN graphs, max_iter \in max_iters, min_iter \in min_iters,
          threshold \in thresholds, fgamma \in 0..MaxGamma, vgamma \in 0..MaxGamma :
          LET g == graphs[gi]
              r == [pc |-> "factors", g |-> gi, i |-> 0,
                    max_iter |-> max_iter, min_iter |-> min_iter,
                    threshold |-> threshold, fgamma |-> fgamma, vgamma |-> vgamma,
                    hist |-> <<>>, last_discrepancy |-> F64Max,
                    tpc |-> FreshTasks(g.factors), tdisc |-> Zeros(g.factors),
                    fdisc |-> 0, acc |-> {},
                    started |-> [f |-> Zeros(g.factors), v |-> Zeros(g.variables)],
                    delivered |-> [f |-> Zeros(g.factors), v |-> Zeros(g.variables)],
                    atCall |-> g, atPhase |-> g,
                    snaps |-> <<>>, res |-> <<"Running">>, prev |-> Previous(run)]
              call == [op |-> "run_message_passing_parallel", g |-> gi,
                       args |-> <<max_iter, min_iter, threshold, fgamma, vgamma>>,
                       res |-> <<"Running">>]
          IN IF max_iter = 0
             THEN /\ run' = [r EXCEPT !.pc = "idle",
                                       !.res = ErrResult(0, F64Max, <<>>)]
                  /\ last' = [call EXCEPT !.res = ErrResult(0, F64Max, <<>>)]
             ELSE /\ run' = r
                  /\ last' = call
    /\ runs' = runs + 1
    /\ UNCHANGED <<stage, ptype, graphs, initSeed, initCalls, freezes>>

Running == run.pc \in {"factors", "variables"}

StartRun == StartRunWith(0..MaxIter, 0..MaxIter, Thresholds, MaxRuns)

\* a task calls eval_messages
TaskEval ==
    /\ Running
    /\ \E n \in DOMAIN run.tpc :
          /\ run.tpc[n] = "eval"
          /\ graphs' = EvalMessages(graphs, run.g, Side(run), n, Parameters(run))
          /\ run' = [run EXCEPT
                !.tpc[n] = "disc",
                !.started[Side(run)][n] = @ + 1,
                !.acc = @ \cup {<<n, a[1], a[2]>> :
                                   a \in EvalAccesses(graphs, run.g, Side(run), n)}]
    /\ UNCHANGED <<stage, ptype, initSeed, initCalls, freezes, runs, last>>

\* a task calls eval_discrepancy
TaskDisc ==
    /\ Running
    /\ \E n \in DOMAIN run.tpc :
          /\ run.tpc[n] = "disc"
          /\ run' = [run EXCEPT
                !.tpc[n] = "send",
                !.tdisc[n] = EvalDiscrepancy(graphs, run.g, Side(run), n),
                !.acc = @ \cup {<<n, a[1], a[2]>> :
                                   a \in DiscAccesses(graphs, run.g, Side(run), n)}]
    /\ UNCHANGED <<stage, ptype, graphs, initSeed, initCalls, freezes, runs, last>>

\* a task calls send_messages
TaskSend ==
    /\ Running
    /\ \E n \in DOMAIN run.tpc :
          /\ run.tpc[n] = "send"
          /\ graphs' = SendMessages(graphs, run.g, Side(run), n)
          /\ run' = [run EXCEPT
                !.tpc[n] = "done",
                !.delivered[Side(run)][n] = @ + 1,
                !.acc = @ \cup {<<n, a[1], a[2]>> :
                                   a \in SendAccesses(graphs, run.g, Side(run), n)}]
    /\ UNCHANGED <<stage, ptype, initSeed, initCalls, freezes, runs, last>>

\* the factor phase's reduce returns; the variable phase begins
EndFactorPhase ==
    /\ run.pc = "factors"
    /\ PhaseDone(run)
    /\ run' = [run EXCEPT
          !.pc = "variables",
          !.fdisc = ReduceMax(run.tdisc, Len(run.tdisc)),
          !.tpc = FreshTasks(graphs[run.g].variables),
          !.tdisc = Zeros(graphs[run.g].variables),
          !.acc = {},
          !.atPhase = graphs[run.g]]
    /\ UNCHANGED <<stage, ptype, graphs, initSeed, initCalls, freezes, runs, last>>

\* the discrepancy of the iteration whose variable phase has ended
MaxDiscrepancy(r) == Max(r.fdisc, ReduceMax(r.tdisc, Len(r.tdisc)))

\* the iteration ends converged: return Ok
ReturnOk ==
    /\ run.pc = "variables"
    /\ PhaseDone(run)
    /\ Converged(MaxDiscrepancy(run), run.threshold, run.i, run.min_iter)
    /\ run' = [run EXCEPT !.pc = "idle",
                          !.hist = Append(@, MaxDiscrepancy(run)),
                          !.last_discrepancy = MaxDiscrepancy(run),
                          !.snaps = Append(@, MessageState(graphs[run.g])),
                          !.res = OkResult(run.i, MaxDiscrepancy(run),
                                           Append(run.hist, MaxDiscrepancy(run)))]
    /\ last' = [last EXCEPT !.res = OkResult(run.i, MaxDiscrepancy(run),
                                             Append(run.hist, MaxDiscrepancy(run)))]
    /\ UNCHANGED <<stage, ptype, graphs, initSeed, initCalls, freezes, runs>>

\* the iteration ends not converged and another follows
NextIteration ==
    /\ run.pc = "variables"
    /\ PhaseDone(run)
    /\ ~Converged(MaxDiscrepancy(run), run.threshold, run.i, run.min_iter)
    /\ MoreIterations(run.i, run.max_iter)
    /\ run' = [run EXCEPT
          !.pc = "factors",
          !.i = @ + 1,
          !.snaps = Append(@, MessageState(graphs[run.g])),
          !.hist = Append(@, MaxDiscrepancy(run)),
          !.last_discrepancy = MaxDiscrepancy(run),
          !.tpc = FreshTasks(graphs[run.g].factors),
          !.tdisc = Zeros(graphs[run.g].factors),
          !.fdisc = 0,
          !.acc = {},
          !.atPhase = graphs[run.g]]
    /\ UNCHANGED <<stage, ptype, graphs, initSeed, initCalls, freezes, runs, last>>

\* the loop is exhausted: return Err
ReturnErr ==
    /\ run.pc = "variables"
    /\ PhaseDone(run)
    /\ ~Converged(MaxDiscrepancy(run), run.threshold, run.i, run.min_iter)
    /\ ~MoreIterations(run.i, run.max_iter)
    /\ run' = [run EXCEPT !.pc = "idle",
                          !.hist = Append(@, MaxDiscrepancy(run)),
                          !.last_discrepancy = MaxDiscrepancy(run),
                          !.snaps = Append(@, MessageState(graphs[run.g])),
                          !.res = ErrResult(run.max_iter, MaxDiscrepancy(run),
                                            Append(run.hist, MaxDiscrepancy(run)))]
    /\ last' = [last EXCEPT !.res = ErrResult(run.max_iter, MaxDiscrepancy(run),
                                              Append(run.hist, MaxDiscrepancy(run)))]
    /\ UNCHANGED <<stage, ptype, graphs, initSeed, initCalls, freezes, runs>>

----------------------------------------------------------------------------
(* sample *)

\* run_message_passing_parallel from iteration i on, its phases run on one
\* thread (the outcome of a phase does not depend on the interleaving of its
\* tasks); a holds the arguments of the call
RECURSIVE RunFrom(_, _, _, _, _)
RunFrom(gs, gi, a, i, discrepancy_dynamics) ==
    Bind(SequentialIteration(gs, gi, a.fgamma, a.vgamma, i),
         LAMBDA it :
            Bind(Append(discrepancy_dynamics, it.disc),
                 LAMBDA dynamics :
                    IF Converged(it.disc, a.threshold, i, a.min_iter)
                    THEN [gs |-> it.gs, res |-> OkResult(i, it.disc, dynamics)]
                    ELSE IF MoreIterations(i, a.max_iter)
                    THEN RunFrom(it.gs, gi, a, i + 1, dynamics)
                    ELSE [gs |-> it.gs,
                          res |-> ErrResult(a.max_iter, it.disc, dynamics)]))

\* run_message_passing_parallel as sample calls it
RunMessagePassing(gs, gi, a) ==
    IF a.max_iter = 0
    THEN [gs |-> gs, res |-> ErrResult(0, F64Max, <<>>)]
    ELSE RunFrom(gs, gi, a, 0, <<>>)

\* (a variant of sample that gives +1 on a tie)
MaxProductSampleTieUp(messages) == IF SumSeq(messages) >= 0 THEN 1 ELSE -1

\* MaxProduct::sample
MaxProductSample(messages) == IF SumSeq(messages) > 0 THEN 1 ELSE -1

\* VariableNode::sample: the payload's sample on the node's incoming messages
VariableNodeSample(node) == MaxProductSample(node.receivers.data)

\* (a variant of the result whose total counts the runs)
SamplingInfoCountsRuns(samples, iterations_per_variable, total_iterations_number) ==
    <<"Ok", samples, iterations_per_variable, Len(iterations_per_variable)>>

\* Ok(SamplingInfo { samples, iterations_per_variable, total_iterations_number })
SamplingInfo(samples, iterations_per_variable, total_iterations_number) ==
    <<"Ok", samples, iterations_per_variable, total_iterations_number>>

\* (a variant of the error that counts the variable whose run failed)
SamplingErrorNextIndex(i, total_iterations_number, info) ==
    <<"SamplingError", i + 1, total_iterations_number + info[2], info[3], info[4]>>

\* (a variant of the error that reports the total of the earlier runs only)
SamplingErrorEarlierTotal(i, total_iterations_number, info) ==
    <<"SamplingError", i, total_iterations_number, info[3], info[4]>>

\* Err(FGError::SamplingError { .. }) made of the failed run's error `info`
SamplingError(i, total_iterations_number, info) ==
    <<"SamplingError", i, total_iterations_number + info[2], info[3], info[4]>>

\* (a variant of the step that freezes the variable before it draws)
SampleStepFreezeFirst(gs, gi, pt, a, i, moved) ==
    Bind(FreezeOp(gi, gs[gi], pt, 1, i, moved).g,
         LAMBDA frozen :
            Bind(RunMessagePassing([gs EXCEPT ![gi] = frozen], gi, a),
                 LAMBDA r : [before |-> gs[gi],
                             sample |-> VariableNodeSample(frozen.variables[i + 1]),
                             frozen |-> frozen, gs |-> r.gs, res |-> r.res]))

\* the body of sample's loop for variable i: draw, freeze, run
SampleStep(gs, gi, pt, a, i, moved) ==
    Bind(VariableNodeSample(gs[gi].variables[i + 1]),
         LAMBDA sample :
            Bind(FreezeOp(gi, gs[gi], pt, sample, i, moved).g,
                 LAMBDA frozen :
                    Bind(RunMessagePassing([gs EXCEPT ![gi] = frozen], gi, a),
                         LAMBDA r : [before |-> gs[gi], sample |-> sample,
                                     frozen |-> frozen, gs |-> r.gs,
                                     res |-> r.res])))

\* sample's loop from variable i on; moves[i + 1] tells whether a
\* reallocation at the freeze of variable i relocates; trace collects the
\* steps taken
RECURSIVE SampleFrom(_, _, _, _, _, _, _, _, _, _, _)
SampleFrom(gs, gi, pt, a, variables_number, i, samples, total_iterations_number, iterations_per_variable, moves, trace) ==
    IF i >= variables_number
    THEN [gs |-> gs, trace |-> trace,
          res |-> SamplingInfo(samples, iterations_per_variable,
                               total_iterations_number)]
    ELSE Bind(SampleStep(gs, gi, pt, a, i, moves[i + 1]),
              LAMBDA st :
                 Bind(Append(trace, [before |-> st.before, sample |-> st.sample,
                                     frozen |-> st.frozen, after |-> st.gs[gi],
                                     res |-> st.res]),
                      LAMBDA tr :
                         IF st.res[1] = "Ok"
                         THEN SampleFrom(st.gs, gi, pt, a, variables_number, i + 1,
                                         Append(samples, st.sample),
                                         total_iterations_number + st.res[2],
                                         Append(iterations_per_variable, st.res[2]),
                                         moves, tr)
                         ELSE [gs |-> st.gs, trace |-> tr,
                               res |-> SamplingError(i, total_iterations_number,
                                                     st.res)]))

\* FactorGraph::sample on graphs[gi]
SampleOp(gs, gi, pt, a, moves) ==
    SampleFrom(gs, gi, pt, a, Len(gs[gi].variables), 0, <<>>, 0, <<>>, moves, <<>>)

\* a call of sample
SampleWith(max_iters, min_iters, thresholds, limit) ==
    /\ stage = "graph"
    /\ run.pc = "idle"
    /\ runs < limit
    /\ \E gi \in DOMAIN graphs, max_iter \in max_iters, min_iter \in min_iters,
          threshold \in thresholds, fgamma \in 0..MaxGamma, vgamma \in 0..MaxGamma :
          \E moves \in [1..Len(graphs[gi].variables) -> BOOLEAN] :
             \E r \in {SampleOp(graphs, gi, ptype,
                                  [max_iter |-> max_iter, min_iter |-> min_iter,
                                   threshold |-> threshold, fgamma |-> fgamma,
                                   vgamma |-> vgamma], moves)} :
                /\ graphs' = r.gs
                /\ last' = [op |-> "sample", g |-> gi,
                            args |-> <<max_iter, min_iter, threshold, fgamma, vgamma>>,
                            res |-> r.res, before |-> graphs[gi],
                            trace |-> r.trace]
    /\ runs' = runs + 1
    /\ UNCHANGED <<stage, ptype, initSeed, initCalls, freezes, run>>

Sample == SampleWith(0..MaxIter, 0..MaxIter, Thresholds, MaxRuns)

----------------------------------------------------------------------------
(* Specifications *)

\* the lifecycle of a graph: builder calls, build, freeze_variable and clone
Next ==
    \/ AddVariable
    \/ AddFactor
    \/ Build
    \/ FreezeVariable
    \/ Clone

Spec == Init /\ [][Next]_vars

\* neighbour lists all of whose indices name a variable of the builder
InRangeLists ==
    {l \in IndexLists : \A k \in 1..Len(l) : l[k] < Len(graphs[1].variables)}

InitMP == InitWith({"Ising"}, 0..MaxSeedMP, {MaxVars})

AddCoupling == AddFactorWith(Couplings, InRangeLists, MaxFactorsMP)

FreezeInRange == FreezeVariableWith(0..(Len(graphs[1].variables) - 1), MaxFreezesMP)

\* message passing on the graphs that successful calls build
NextMP ==
    \/ AddCoupling
    \/ Build
    \/ FreezeInRange
    \/ StartRun
    \/ TaskEval
    \/ TaskDisc
    \/ TaskSend
    \/ EndFactorPhase
    \/ ReturnOk
    \/ NextIteration
    \/ ReturnErr

SpecMP == InitMP /\ [][NextMP]_vars

\* the steps of a call in progress: the parallel iterators run every task to
\* its end and the loop goes on to its next test
RunStep ==
    \/ TaskEval
    \/ TaskDisc
    \/ TaskSend
    \/ EndFactorPhase
    \/ ReturnOk
    \/ NextIteration
    \/ ReturnErr

SpecMPFair == SpecMP /\ WF_vars(RunStep)

InitSample == InitWith({"Ising"}, 0..MaxSeedMP, 0..MaxVars)

\* sample on the graphs that successful calls build
NextSample ==
    \/ AddCoupling
    \/ Build
    \/ FreezeInRange
    \/ Sample

SpecSample == InitSample /\ [][NextSample]_vars

\* freeze_variable, up to MaxFreezes times, of variables that may be clamped
FreezeAgain == FreezeVariableWith(0..(Len(graphs[1].variables) - 1), MaxFreezes)

\* sample, up to MaxSamples times, on graphs that may be frozen or sampled
SampleAgain == SampleWith({MaxIterAgain}, {0}, Thresholds, MaxSamples)

InitAgain == InitWith({"Ising"}, 0..MaxSeedMP, 1..MaxVars)

NextAgain ==
    \/ AddCoupling
    \/ Build
    \/ FreezeAgain
    \/ SampleAgain

SpecAgain == InitAgain /\ [][NextAgain]_vars

InitClone == InitWith({"Ising"}, {MaxSeedMP}, {MaxVars})

RunClone == StartRunWith({MaxIterClone}, {0}, {ThresholdClone}, MaxRunsClone)

SampleClone == SampleWith({MaxIterClone}, {0}, {ThresholdClone}, MaxRunsClone)

\* a graph and its clone, each frozen, run and sampled
NextClone ==
    \/ AddCoupling
    \/ Build
    \/ Clone
    \/ FreezeInRange
    \/ RunClone
    \/ TaskEval
    \/ TaskDisc
    \/ TaskSend
    \/ EndFactorPhase
    \/ ReturnOk
    \/ NextIteration
    \/ ReturnErr
    \/ SampleClone

SpecClone == InitClone /\ [][NextClone]_vars

\* the messages a clamp factor is made of and exchanges
ClampMessages ==
    (-MaxMessageClamp..MaxMessageClamp) \cup {ClampMagnitude, -ClampMagnitude}

InitClamp ==
    /\ stage = "payload"
    /\ ptype = "Ising"
    /\ graphs = <<>>
    /\ initSeed = 0
    /\ initCalls = 0
    /\ freezes = 0
    /\ runs = 0
    /\ run = Idle
    /\ last = [op |-> "none"]

\* IsingFactor::from_message(m); dst is the buffer its messages will be
\* written to, holding whatever the initializer put there
ClampFromMessage ==
    /\ stage = "payload"
    /\ last.op = "none"
    /\ \E m \in ClampMessages, dst \in ClampMessages :
          last' = [op |-> "from_message", m |-> m, factor |-> FromMessage(ptype, m),
                   dst |-> <<dst>>, sends |-> 0]
    /\ UNCHANGED <<stage, ptype, graphs, initSeed, initCalls, freezes, runs, run>>

\* send_messages(src, dst, parameters) of the factor made by from_message
ClampSendMessages ==
    /\ stage = "payload"
    /\ last.op \in {"from_message", "send_messages"}
    /\ last.sends < MaxSendsClamp
    /\ \E src \in ClampMessages, gamma \in 0..MaxGammaClamp, beta \in 1..MaxBetaClamp :
          last' = [last EXCEPT
                !.op = "send_messages",
                !.dst = FactorSendMessages(last.factor, <<src>>, last.dst,
                                           [beta |-> beta, gamma |-> gamma]),
                !.sends = @ + 1] @@
                [src |-> src, prev |-> last.dst, gamma |-> gamma, beta |-> beta]
    /\ UNCHANGED <<stage, ptype, graphs, initSeed, initCalls, freezes, runs, run>>

NextClamp == ClampFromMessage \/ ClampSendMessages

SpecClamp == InitClamp /\ [][NextClamp]_vars

\* freeze_variable with any sample of the sample type and any index
FreezeAnySample ==
    /\ stage = "graph"
    /\ freezes < MaxFreezesMP
    /\ \E value \in -1..1, var_index \in 0..MaxVars, moved \in BOOLEAN :
          LET r == FreezeVariableCall(1, graphs[1], ptype, value, var_index, moved)
          IN /\ graphs' = [graphs EXCEPT ![1] = r.g]
             /\ last' = [op |-> "freeze_variable", g |-> 1,
                         args |-> <<value, var_index>>, res |-> r.res]
    /\ freezes' = freezes + 1
    /\ UNCHANGED <<stage, ptype, initSeed, initCalls, runs, run>>

NextPanic == AddCoupling \/ Build \/ FreezeAnySample

\* the calls of a program that passes any sample to freeze_variable
SpecPanic == InitSample /\ [][NextPanic]_vars

\* the message arrays a payload is handed
PayloadArrays(n) ==
    UNION {[1..d -> -MaxMessageClamp..MaxMessageClamp] : d \in 0..n}

\* IsingVariable::send_messages(src, dst, parameters) on arrays of one length
VariableSend ==
    /\ last.op = "none"
    /\ \E src \in PayloadArrays(MaxDegreePayload), gamma \in 0..MaxGammaClamp :
          \E dst \in [1..Len(src) -> -MaxMessageClamp..MaxMessageClamp] :
             last' = [op |-> "variable_send_messages", src |-> src, prev |-> dst,
                      gamma |-> gamma,
                      dst |-> VariableSendMessages(src, dst, gamma)]
    /\ UNCHANGED <<stage, ptype, graphs, initSeed, initCalls, freezes, runs, run>>

\* IsingFactor::send_messages(src, dst, parameters) of a coupling
FactorSend ==
    /\ last.op = "none"
    /\ \E factor \in Couplings, gamma \in 0..MaxGammaClamp, beta \in 1..MaxBetaClamp :
          \E src, dst \in [1..2 -> -MaxMessageClamp..MaxMessageClamp] :
             last' = [op |-> "factor_send_messages", factor |-> factor, src |-> src,
                      prev |-> dst, parameters |-> [beta |-> beta, gamma |-> gamma],
                      dst |-> FactorSendMessages(factor, src, dst,
                                                 [beta |-> beta, gamma |-> gamma])]
    /\ UNCHANGED <<stage, ptype, graphs, initSeed, initCalls, freezes, runs, run>>

\* MaxProduct::sample(messages, rng): the generator is bound to `_`, so it is
\* handed back in the state it came in
SampleCall ==
    /\ last.op = "none"
    /\ \E messages \in UNION {[1..d -> ClampMessages] : d \in 0..MaxDegreePayload},
          rng \in 0..MaxRngPayload :
          last' = [op |-> "sample", messages |-> messages, rng |-> rng,
                   res |-> MaxProductSample(messages), rng_after |-> rng]
    /\ UNCHANGED <<stage, ptype, graphs, initSeed, initCalls, freezes, runs, run>>

NextPayload == VariableSend \/ FactorSend \/ SampleCall

\* one call of a payload rule on arrays of every content
SpecPayload == InitClamp /\ [][NextPayload]_vars

\* the couplings a caller of a sum-product builder passes to add_factor
SumProductCouplings == {SumProductCoupling(1, 0, 0), SumProductCoupling(-1, 1, 0)}

InitTree == InitWith({"Ising"}, 0..MaxSeedMP, 1..MaxVarsTree)

\* a coupling between two different variables of the builder
AddSumProductCoupling ==
    AddFactorWith(SumProductCouplings,
                  {l \in InRangeLists : Len(l) = 2 /\ l[1] # l[2]}, MaxFactorsTree)

\* run_message_passing_parallel as one step, its phases run on one thread
RunToReturn ==
    /\ stage = "graph"
    /\ run.pc = "idle"
    /\ runs < MaxRuns
    /\ \E gi \in DOMAIN graphs, max_iter \in 0..MaxIterTree,
          min_iter \in 0..1, threshold \in 0..1,
          fgamma \in 0..MaxGamma, vgamma \in 0..MaxGamma :
          \E r \in {RunMessagePassing(graphs, gi,
                                       [max_iter |-> max_iter, min_iter |-> min_iter,
                                        threshold |-> threshold, fgamma |-> fgamma,
                                        vgamma |-> vgamma])} :
             /\ graphs' = r.gs
             /\ last' = [op |-> "run_message_passing_parallel", g |-> gi,
                         args |-> <<max_iter, min_iter, threshold, fgamma, vgamma>>,
                         res |-> r.res, before |-> graphs[gi]]
    /\ runs' = runs + 1
    /\ UNCHANGED <<stage, ptype, initSeed, initCalls, freezes, run>>

\* sum-product message passing on the graphs that successful calls build
NextTree ==
    \/ AddSumProductCoupling
    \/ Build
    \/ FreezeInRange
    \/ RunToReturn

SpecTree == InitTree /\ [][NextTree]_vars

----------------------------------------------------------------------------
(* Two construction paths *)

\* graphs[1] is a builder made by new_with_variables(n), graphs[2] a builder
\* made by new_with_variables(0) that receives its variables from
\* add_variable; the same calls are then made on both
InitPaths ==
    /\ stage = "builder"
    /\ ptype \in {"Ising", "Fake"}
    /\ initSeed \in 0..MaxSeed
    /\ \E n \in 0..MaxVars :
          /\ graphs = <<NewBuilder(n), NewBuilder(0)>>
          /\ last = [op |-> "new_with_variables", g |-> 1, args |-> <<n>>,
                     res |-> <<"Ok">>, twin |-> <<"Ok">>]
    /\ initCalls = 0
    /\ freezes = 0
    /\ runs = 0
    /\ run = Idle

\* both builders have the same number of variables
PathsFilled == Len(graphs[2].variables) = Len(graphs[1].variables)

\* add_variable() on the builder that was created empty
AddVariablePath ==
    /\ stage = "builder"
    /\ ~PathsFilled
    /\ graphs' = [graphs EXCEPT ![2] = AddVariableOp(@)]
    /\ last' = [op |-> "add_variable", g |-> 2, args |-> <<>>,
                res |-> <<"Ok">>, twin |-> <<"Ok">>]
    /\ UNCHANGED <<stage, ptype, initSeed, initCalls, freezes, runs, run>>

\* the same add_factor(factor, var_indices, ..) on both builders; each
\* builder's initializer starts from the same seed
AddFactorPaths ==
    /\ stage = "builder"
    /\ PathsFilled
    /\ Len(graphs[1].factors) < MaxFactors
    /\ \E factor \in Payloads(ptype), var_indices \in IndexLists,
          moved1 \in BOOLEAN, moved2 \in BOOLEAN :
          \E r1 \in {AddFactorOp(graphs[1], factor, var_indices, initSeed,
                                 initCalls, moved1)},
             r2 \in {AddFactorOp(graphs[2], factor, var_indices, initSeed,
                                 initCalls, moved2)} :
             /\ graphs' = <<r1.g, r2.g>>
             /\ initCalls' = r1.calls
             /\ last' = [op |-> "add_factor", g |-> 1,
                         args |-> <<factor, var_indices>>, res |-> r1.res,
                         twin |-> r2.res]
    /\ UNCHANGED <<stage, ptype, initSeed, freezes, runs, run>>

\* build() on both builders
BuildPaths ==
    /\ stage = "builder"
    /\ PathsFilled
    /\ stage' = "graph"
    /\ graphs' = <<BuildOp(1, graphs[1]), BuildOp(2, graphs[2])>>
    /\ last' = [op |-> "build", g |-> 1, args |-> <<>>, res |-> <<"Ok">>,
                twin |-> <<"Ok">>]
    /\ UNCHANGED <<ptype, initSeed, initCalls, freezes, runs, run>>

\* clone() of both graphs
ClonePaths ==
    /\ stage = "graph"
    /\ Len(graphs) = 2
    /\ graphs' = graphs \o <<CloneOp(3, graphs[1]), CloneOp(4, graphs[2])>>
    /\ last' = [op |-> "clone", g |-> 3, args |-> <<1>>, res |-> <<"Ok">>,
                twin |-> <<"Ok">>]
    /\ UNCHANGED <<stage, ptype, initSeed, initCalls, freezes, runs, run>>

\* the same freeze_variable(value, var_index) on every graph
FreezePaths ==
    /\ stage = "graph"
    /\ freezes < MaxFreezes
    /\ \E value \in SampleValues(ptype), var_index \in 0..MaxVars,
          moved \in [DOMAIN graphs -> BOOLEAN] :
          \E rs \in {[gi \in DOMAIN graphs |->
                        FreezeOp(gi, graphs[gi], ptype, value, var_index,
                                 moved[gi])]} :
             /\ graphs' = [gi \in DOMAIN graphs |-> rs[gi].g]
             /\ last' = [op |-> "freeze_variable", g |-> 1,
                         args |-> <<value, var_index>>, res |-> rs[1].res,
                         twin |-> rs[2].res]
    /\ freezes' = freezes + 1
    /\ UNCHANGED <<stage, ptype, initSeed, initCalls, runs, run>>

NextPaths ==
    \/ AddVariablePath
    \/ AddFactorPaths
    \/ BuildPaths
    \/ ClonePaths
    \/ FreezePaths

SpecPaths == InitPaths /\ [][NextPaths]_vars

----------------------------------------------------------------------------
(* Structural properties *)

SuccessfulFreeze(l) == l.op = "freeze_variable" /\ l.res = <<"Ok">>

EdgeSymmetric(g) ==
    /\ \A f \in 1..Len(g.factors) :
          /\ Len(g.factors[f].var_node_indices) = FacDegree(g.factors[f])
          /\ Len(g.factors[f].var_node_receiver_indices) = FacDegree(g.factors[f])
          /\ \A k \in 1..FacDegree(g.factors[f]) :
                LET v == g.factors[f].var_node_indices[k]
                    j == g.factors[f].var_node_receiver_indices[k]
                IN /\ v >= 0 /\ v < Len(g.variables)
                   /\ j >= 0 /\ j < Len(g.variables[v + 1].fac_node_indices)
                   /\ j < Len(g.variables[v + 1].fac_node_receiver_indices)
                   /\ g.variables[v + 1].fac_node_indices[j + 1] = f - 1
                   /\ g.variables[v + 1].fac_node_receiver_indices[j + 1] = k - 1
    /\ \A v \in 1..Len(g.variables) :
          /\ Len(g.variables[v].fac_node_indices) = VarDegree(g.variables[v])
          /\ Len(g.variables[v].fac_node_receiver_indices) = VarDegree(g.variables[v])
          /\ \A j \in 1..VarDegree(g.variables[v]) :
                LET f == g.variables[v].fac_node_indices[j]
                    k == g.variables[v].fac_node_receiver_indices[j]
                IN /\ f >= 0 /\ f < Len(g.factors)
                   /\ k >= 0 /\ k < Len(g.factors[f + 1].var_node_indices)
                   /\ k < Len(g.factors[f + 1].var_node_receiver_indices)
                   /\ g.factors[f + 1].var_node_indices[k + 1] = v - 1
                   /\ g.factors[f + 1].var_node_receiver_indices[k + 1] = j - 1

\* C1: after build() and after every successful freeze_variable, every
\* factor-side incidence (f, k) -> (v, j) is mirrored by the variable-side
\* incidence (v, j) -> (f, k), and the other way round.
C1_EdgeSymmetry ==
    (last.op = "build" \/ SuccessfulFreeze(last)) =>
        \A gi \in DOMAIN graphs : EdgeSymmetric(graphs[gi])

\* a graph with a factor of degree 2 that has been frozen successfully twice
C1_Witness ==
    /\ SuccessfulFreeze(last)
    /\ freezes = 2
    /\ Len(graphs[1].factors) >= 3
    /\ \E f \in 1..Len(graphs[1].factors) : FacDegree(graphs[1].factors[f]) = 2
    /\ \E v \in 1..Len(graphs[1].variables) : VarDegree(graphs[1].variables[v]) >= 3

\* every sender of graph gi designates the slot its index arrays name, and
\* reads back the value stored there
HandlesBound(gi) ==
    LET g == graphs[gi]
    IN /\ \A f \in 1..Len(g.factors) :
             /\ Len(g.factors[f].senders) = Len(g.factors[f].var_node_indices)
             /\ \A k \in 1..Len(g.factors[f].senders) :
                   LET v == g.factors[f].var_node_indices[k]
                       j == g.factors[f].var_node_receiver_indices[k]
                   IN /\ Designates(g.factors[f].senders[k], gi, "v", v, j)
                      /\ Deref(g.factors[f].senders[k])
                            = g.variables[v + 1].receivers.data[j + 1]
       /\ \A v \in 1..Len(g.variables) :
             /\ Len(g.variables[v].senders) = Len(g.variables[v].fac_node_indices)
             /\ \A j \in 1..Len(g.variables[v].senders) :
                   LET f == g.variables[v].fac_node_indices[j]
                       k == g.variables[v].fac_node_receiver_indices[j]
                   IN /\ Designates(g.variables[v].senders[j], gi, "f", f, k)
                      /\ Deref(g.variables[v].senders[j])
                            = g.factors[f + 1].receivers.data[k + 1]

\* C2: in the graph build() returns every sender designates the slot named
\* by the node's index arrays and reads back exactly the value of that slot.
C2_HandleBindingAfterBuild == last.op = "build" => HandlesBound(1)

\* build() of a builder with two factors, one variable having two slots
C2_Witness ==
    /\ last.op = "build"
    /\ Len(graphs[1].factors) = 2
    /\ \E v \in 1..Len(graphs[1].variables) : VarDegree(graphs[1].variables[v]) >= 2
    /\ \E f \in 1..2 : \E k \in 1..FacDegree(graphs[1].factors[f]) :
          graphs[1].factors[f].var_node_receiver_indices[k] # k - 1

\* every sender of graph gi designates live storage at the slot its index
\* arrays name
HandlesValid(gi) ==
    LET g == graphs[gi]
    IN /\ \A f \in 1..Len(g.factors) : \A k \in 1..Len(g.factors[f].senders) :
             Designates(g.factors[f].senders[k], gi, "v",
                        g.factors[f].var_node_indices[k],
                        g.factors[f].var_node_receiver_indices[k])
       /\ \A v \in 1..Len(g.variables) : \A j \in 1..Len(g.variables[v].senders) :
             Designates(g.variables[v].senders[j], gi, "f",
                        g.variables[v].fac_node_indices[j],
                        g.variables[v].fac_node_receiver_indices[j])

\* the senders the nodes of g had before a call are the same pointers in h
EarlierSendersKept(g, h) ==
    /\ \A f \in 1..Len(g.factors) : \A k \in 1..Len(g.factors[f].senders) :
          h.factors[f].senders[k] = g.factors[f].senders[k]
    /\ \A v \in 1..Len(g.variables) : \A j \in 1..Len(g.variables[v].senders) :
          h.variables[v].senders[j] = g.variables[v].senders[j]

\* C3: a successful freeze_variable on a built or cloned graph leaves no
\* sender designating released or stale storage: all senders of the graph,
\* the clamp's and the variable's new one included, designate the current
\* storage at the slot the index arrays name; and when the variable's
\* receivers had spare capacity (no reallocation) every earlier sender is the
\* same pointer as before.
C3_HandlesValidAcrossFreezes ==
    [][SuccessfulFreeze(last') =>
         LET gi == last'.g
             v  == last'.args[2]
             before == graphs[gi].variables[v + 1].receivers
         IN /\ \A g2 \in DOMAIN graphs' : HandlesValid(g2)'
            /\ Len(before.data) < before.cap =>
                  EarlierSendersKept(graphs[gi], graphs'[gi])
            /\ \A f \in 1..Len(graphs'[gi].factors) :
                  \A k \in 1..Len(graphs'[gi].factors[f].senders) :
                     graphs'[gi].factors[f].var_node_indices[k] = v =>
                        graphs'[gi].factors[f].senders[k].gen
                           = graphs'[gi].variables[v + 1].receivers.gen
      ]_vars

\* a freeze whose push relocated the receivers of a variable that had slots
\* already, and a freeze that did not reallocate
C3_Witness ==
    /\ SuccessfulFreeze(last)
    /\ LET v == graphs[last.g].variables[last.args[2] + 1]
       IN /\ v.receivers.gen > 0
          /\ VarDegree(v) >= 2
    /\ \E v \in 1..Len(graphs[last.g].variables) :
          /\ graphs[last.g].variables[v].receivers.gen = 0
          /\ VarDegree(graphs[last.g].variables[v]) >= 2
          /\ Last(graphs[last.g].variables[v].fac_node_indices) >= MaxFactors

\* the receiver slots of one side of g, as (node, slot) pairs
SlotsOf(nodes) ==
    UNION {{<<n - 1, j - 1>> : j \in 1..Len(nodes[n].receivers.data)} :
              n \in 1..Len(nodes)}

\* the (node, k) pairs of one side of g: one per sender
SenderPairs(nodes) ==
    UNION {{<<n - 1, k - 1>> : k \in 1..Len(nodes[n].senders)} : n \in 1..Len(nodes)}

\* the slot the k-th sender of node n designates, as a (node, slot) pair
DestOf(nodes, p) ==
    LET h == nodes[p[1] + 1].senders[p[2] + 1] IN <<h.node, h.off>>

UniqueDestinations(gi) ==
    LET g == graphs[gi]
        fp == SenderPairs(g.factors)
        vp == SenderPairs(g.variables)
    IN /\ \A p \in fp :
             LET h == g.factors[p[1] + 1].senders[p[2] + 1]
             IN Live(h) /\ h.g = gi /\ h.side = "v"
       /\ \A p, q \in fp : DestOf(g.factors, p) = DestOf(g.factors, q) => p = q
       /\ {DestOf(g.factors, p) : p \in fp} = SlotsOf(g.variables)
       /\ \A p \in vp :
             LET h == g.variables[p[1] + 1].senders[p[2] + 1]
             IN Live(h) /\ h.g = gi /\ h.side = "f"
       /\ \A p, q \in vp : DestOf(g.variables, p) = DestOf(g.variables, q) => p = q
       /\ {DestOf(g.variables, p) : p \in vp} = SlotsOf(g.factors)

\* C4: after build and after every freeze_variable the pairs (f, k) and the
\* variable-side receiver slots their senders designate are in one-to-one
\* correspondence, and so are the pairs (v, j) and the factor-side slots;
\* also for a factor whose neighbour list names a variable twice.
C4_UniqueDestinationSlots ==
    stage = "graph" => \A gi \in DOMAIN graphs : UniqueDestinations(gi)

\* a frozen graph holding a factor both of whose neighbours are one variable
C4_Witness ==
    /\ SuccessfulFreeze(last)
    /\ \E f \in 1..Len(graphs[last.g].factors) :
          /\ FacDegree(graphs[last.g].factors[f]) = 2
          /\ graphs[last.g].factors[f].var_node_indices[1]
                = graphs[last.g].factors[f].var_node_indices[2]
          /\ graphs[last.g].factors[f].var_node_indices[1] = last.args[2]

----------------------------------------------------------------------------
(* Properties of run_message_passing_parallel *)

\* two accesses of different tasks to one location, one of them a write
RaceFree(acc) ==
    \A a, b \in acc : (a[1] # b[1] /\ a[2] = b[2]) => (~a[3] /\ ~b[3])

\* every order in which n tasks can be run one after another
Orders(n) == {o \in [1..n -> 1..n] : \A a, b \in 1..n : o[a] = o[b] => a = b}

\* the graphs as they were when the current phase began
PhaseStart(r) == [graphs EXCEPT ![r.g] = r.atPhase]

\* the phase has left what every sequential order leaves
PhaseDeterministic(r) ==
    \A o \in Orders(Len(r.tpc)) :
        LET s == SequentialPhase(PhaseStart(r), r.g, Side(r), o, Parameters(r), 0)
        IN /\ s.gs = graphs
           /\ s.disc = ReduceMax(r.tdisc, Len(r.tdisc))

\* C5: in a factor phase and in a variable phase, under every interleaving
\* of the tasks' steps, no location is accessed by two tasks when one of the
\* accesses is a write, and once all tasks have run the graph and the reduced
\* maximum discrepancy are those of processing the nodes sequentially, in
\* whatever order.
C5_RaceFreedom ==
    Running =>
        /\ RaceFree(run.acc)
        /\ PhaseDone(run) => PhaseDeterministic(run)

\* a variable phase has ended that followed a factor phase of two tasks, both
\* variables having sent and the phase having changed the graph
C5_Witness ==
    /\ run.pc = "variables"
    /\ PhaseDone(run)
    /\ Len(graphs[run.g].factors) >= 2
    /\ \A v \in 1..Len(graphs[run.g].variables) :
          Len(graphs[run.g].variables[v].senders) >= 1
    /\ graphs[run.g] # run.atPhase
    /\ \E a \in run.acc : a[3]

\* between g and h nothing differs but factors' messages and the data of
\* variables' receivers
FactorPhaseFrame(g, h) ==
    /\ Len(h.factors) = Len(g.factors)
    /\ Len(h.variables) = Len(g.variables)
    /\ \A f \in 1..Len(g.factors) :
          /\ Len(h.factors[f].messages) = Len(g.factors[f].messages)
          /\ [h.factors[f] EXCEPT !.messages = g.factors[f].messages] = g.factors[f]
    /\ \A v \in 1..Len(g.variables) :
          /\ Len(h.variables[v].receivers.data) = Len(g.variables[v].receivers.data)
          /\ [h.variables[v] EXCEPT !.receivers.data = g.variables[v].receivers.data]
                = g.variables[v]

\* between g and h nothing differs but variables' messages and the data of
\* factors' receivers
VariablePhaseFrame(g, h) ==
    /\ Len(h.factors) = Len(g.factors)
    /\ Len(h.variables) = Len(g.variables)
    /\ \A v \in 1..Len(g.variables) :
          /\ Len(h.variables[v].messages) = Len(g.variables[v].messages)
          /\ [h.variables[v] EXCEPT !.messages = g.variables[v].messages]
                = g.variables[v]
    /\ \A f \in 1..Len(g.factors) :
          /\ Len(h.factors[f].receivers.data) = Len(g.factors[f].receivers.data)
          /\ [h.factors[f] EXCEPT !.receivers.data = g.factors[f].receivers.data]
                = g.factors[f]

\* C6: a step taken during the factor phase changes nothing but factors'
\* staged outgoing arrays (messages) and variables' incoming slots
\* (receivers); a step taken during the variable phase changes nothing but
\* variables' staged outgoing arrays and factors' incoming slots; no other
\* graph changes.
C6_PhaseSeparation ==
    [][/\ run.pc = "factors" =>
             FactorPhaseFrame(graphs[run.g], graphs'[run.g])
       /\ run.pc = "variables" =>
             VariablePhaseFrame(graphs[run.g], graphs'[run.g])
       /\ Running =>
             /\ Len(graphs') = Len(graphs)
             /\ \A gi \in DOMAIN graphs : gi # run.g => graphs'[gi] = graphs[gi]
      ]_vars

\* in a variable phase that followed a factor phase, a factor's incoming
\* slot and a variable's staged message have changed, the variable's
\* incoming slots changed in the factor phase before
C6_Witness ==
    /\ run.pc = "variables"
    /\ \E f \in 1..Len(graphs[run.g].factors) :
          graphs[run.g].factors[f].receivers.data
             # run.atPhase.factors[f].receivers.data
    /\ \E v \in 1..Len(graphs[run.g].variables) :
          /\ graphs[run.g].variables[v].messages
                # run.atPhase.variables[v].messages
          /\ run.atPhase.variables[v].receivers.data
                # run.atCall.variables[v].receivers.data

\* every staged message of the nodes equals the slot its sender points to
AllDelivered(nodes) ==
    \A n \in 1..Len(nodes) : \A k \in 1..Len(nodes[n].messages) :
        Deref(nodes[n].senders[k]) = nodes[n].messages[k]

\* the incoming values add_factor (k-th factor of the builder, every factor
\* before it a coupling) and freeze_variable assign to a factor
InitialReceivers(f, node) ==
    IF node.factor.kind = "Coupling"
    THEN <<InitMessage(initSeed, 4 * (f - 1)), InitMessage(initSeed, 4 * (f - 1) + 2)>>
    ELSE <<node.factor.m>>

\* C7: a variable task of iteration i has started only if every factor task
\* has delivered in iteration i, and then every factor's staged messages are
\* the values in the variables' incoming slots; a factor task of iteration
\* i + 1 has started only if every variable task has delivered in iteration
\* i, and in the factor phase of iteration i + 1 the factors' incoming slots
\* hold the variables' staged messages; in iteration 0 of the first run the
\* factors' incoming slots hold the values assigned at add_factor and
\* freeze_variable.
C7_PhaseOrdering ==
    Running =>
        LET g == graphs[run.g]
        IN /\ \A v \in 1..Len(g.variables), f \in 1..Len(g.factors) :
                 /\ run.started.v[v] <= run.delivered.f[f]
                 /\ run.started.f[f] <= run.delivered.v[v] + 1
           /\ \A f \in 1..Len(g.factors) :
                 /\ run.started.f[f] \in {run.i, run.i + 1}
                 /\ run.pc = "variables" => run.delivered.f[f] = run.i + 1
           /\ \A v \in 1..Len(g.variables) :
                 /\ run.started.v[v] \in {run.i, run.i + 1}
                 /\ run.pc = "factors" =>
                       run.started.v[v] = run.i /\ run.delivered.v[v] = run.i
           /\ run.pc = "variables" => AllDelivered(g.factors)
           /\ (run.pc = "factors" /\ run.i > 0) => AllDelivered(g.variables)
           /\ (run.pc = "factors" /\ run.i = 0 /\ runs = 1) =>
                 \A f \in 1..Len(g.factors) :
                    g.factors[f].receivers.data = InitialReceivers(f, g.factors[f])

\* a factor task of iteration 1 has started on a graph with a coupling and a
\* clamp, the variables of iteration 0 having changed a factor's incoming slot
C7_Witness ==
    /\ run.pc = "factors"
    /\ run.i = 1
    /\ Len(graphs[run.g].factors) >= 2
    /\ \E f \in 1..Len(graphs[run.g].factors) :
          /\ run.tpc[f] = "disc"
          /\ graphs[run.g].factors[f].receivers.data
                # run.atCall.factors[f].receivers.data

\* the last call is a run_message_passing_parallel that has returned
Returned ==
    /\ last.op = "run_message_passing_parallel"
    /\ last.res[1] # "Running"

\* D_0 .. D_{n - 1} of the run r
ExpectedDynamics(r, n) ==
    DiscrepancyDynamics([graphs EXCEPT ![r.g] = r.atCall], r.g, r.fgamma,
                        r.vgamma, 0, n)

\* the iterations i among those of D with D_i < threshold and i + 1 >= min_iter
Hits(r, D) ==
    {j \in 0..(Len(D) - 1) : D[j + 1] < r.threshold /\ j + 1 >= r.min_iter}

Least(S) == CHOOSE x \in S : \A y \in S : x <= y

\* every node's task has run exactly n times
Performed(r, n) ==
    /\ \A f \in DOMAIN r.delivered.f : r.delivered.f[f] = n /\ r.started.f[f] = n
    /\ \A v \in DOMAIN r.delivered.v : r.delivered.v[v] = n /\ r.started.v[v] = n

\* C8: the call returns Ok exactly when some iteration i < max_iter has
\* D_i < threshold and i + 1 >= min_iter; it returns at the first such i,
\* having run i + 1 iterations, with iterations = i, last_discrepancy = D_i
\* and history = [D_0, ..., D_i]; while the call runs iteration i no earlier
\* iteration was such a one.
C8_ConvergenceReturn ==
    /\ Returned =>
          LET D == ExpectedDynamics(run, run.max_iter)
              H == Hits(run, D)
          IN /\ H # {} =>
                   /\ last.res = <<"Ok", Least(H), D[Least(H) + 1],
                                   SubSeq(D, 1, Least(H) + 1)>>
                   /\ Len(last.res[4]) = Least(H) + 1
                   /\ Performed(run, Least(H) + 1)
             /\ last.res[1] = "Ok" => H # {}
    /\ Running => Hits(run, ExpectedDynamics(run, run.i)) = {}

\* Ok at iteration 1, iteration 0 having missed the threshold
C8_Witness ==
    /\ Returned
    /\ last.res[1] = "Ok"
    /\ last.res[2] = 1
    /\ last.res[4][1] >= run.threshold
    /\ last.res[4][2] < run.threshold

\* C9: when no iteration i < max_iter has D_i < threshold and
\* i + 1 >= min_iter, the call runs exactly max_iter iterations and returns
\* the error with iterations = max_iter and the history D_0 .. D_{max_iter-1},
\* of length max_iter, and, max_iter being positive, last_discrepancy =
\* D_{max_iter-1}; it returns the error in no other case.
C9_Exhaustion ==
    Returned =>
        LET D == ExpectedDynamics(run, run.max_iter)
            H == Hits(run, D)
        IN /\ H = {} =>
                 /\ last.res[1] = "MessagePassingError"
                 /\ last.res[2] = run.max_iter
                 /\ last.res[4] = D
                 /\ Len(last.res[4]) = run.max_iter
                 /\ run.max_iter > 0 => last.res[3] = D[run.max_iter]
                 /\ Performed(run, run.max_iter)
           /\ last.res[1] = "MessagePassingError" => H = {}

\* the error after two or more iterations that changed the messages, the
\* last discrepancy being positive
C9_Witness ==
    /\ Returned
    /\ last.res[1] = "MessagePassingError"
    /\ last.res[2] >= 2
    /\ last.res[3] > 0
    /\ last.res[4][1] # last.res[4][2]

----------------------------------------------------------------------------
(* add_factor's degree check *)

\* C10: add_factor with a neighbour list whose length is not the factor's
\* degree returns DegreeError(factor.degree(), list) and changes neither the
\* factor list nor any variable nor the number of initializer calls, also
\* when the list holds an index that is out of range.
C10_DegreeMismatch ==
    [][(last'.op = "add_factor"
          /\ FactorDegree(last'.args[1]) # Len(last'.args[2])) =>
         /\ last'.res = <<"DegreeError", FactorDegree(last'.args[1]), last'.args[2]>>
         /\ graphs' = graphs
         /\ initCalls' = initCalls
      ]_vars

\* a degree mismatch on a list that also holds an out-of-range index, on a
\* builder that has a factor and a variable
C10_Witness ==
    /\ last.op = "add_factor"
    /\ last.res[1] = "DegreeError"
    /\ Len(graphs[1].factors) >= 1
    /\ Len(graphs[1].variables) >= 1
    /\ \E k \in 1..Len(last.args[2]) : last.args[2][k] >= Len(graphs[1].variables)

----------------------------------------------------------------------------
(* Range errors of add_factor and freeze_variable *)

\* the positions of the list that hold an index no variable has
OutOfRangePositions(var_indices, n) ==
    {k \in 1..Len(var_indices) : var_indices[k] >= n}

\* C11: add_factor with a neighbour list of the factor's degree that holds
\* an index v_k >= n_V, n_V the builder's number of variables, returns
\* OutOfRangeVariable(n_V, v_k) for the first such v_k of the list.
C11_AddFactorOutOfRange ==
    [][(/\ last'.op = "add_factor"
        /\ FactorDegree(last'.args[1]) = Len(last'.args[2])
        /\ OutOfRangePositions(last'.args[2], Len(graphs[1].variables)) # {}) =>
         LET bad == OutOfRangePositions(last'.args[2], Len(graphs[1].variables))
             first == CHOOSE k \in bad : \A j \in bad : k <= j
         IN /\ last'.res = <<"OutOfRangeVariable", Len(graphs[1].variables),
                              last'.args[2][first]>>
            /\ Len(graphs'[1].variables) = Len(graphs[1].variables)
      ]_vars

\* the error for a list of two different indices out of range, on a builder
\* with a variable
C11_Witness ==
    /\ last.op = "add_factor"
    /\ last.res[1] = "OutOfRangeVariable"
    /\ Len(graphs[1].variables) >= 1
    /\ Len(last.args[2]) = 2
    /\ last.args[2][1] >= Len(graphs[1].variables)
    /\ last.args[2][2] >= Len(graphs[1].variables)
    /\ last.args[2][1] # last.args[2][2]

\* C12: freeze_variable(value, var_ix) on a graph of n_V variables returns
\* OutOfRangeVariable(n_V, var_ix) when var_ix >= n_V and Ok when
\* var_ix < n_V, the clamp factor being of degree 1.
C12_FreezeRange ==
    [][last'.op = "freeze_variable" =>
         LET n == Len(graphs[last'.g].variables)
             var_ix == last'.args[2]
             clamp == FromMessage(ptype, SampleToMessage(ptype, last'.args[1]))
         IN /\ FactorDegree(clamp) = 1
            /\ var_ix >= n => last'.res = <<"OutOfRangeVariable", n, var_ix>>
            /\ var_ix < n => last'.res = <<"Ok">>
      ]_vars

\* the error of the second freeze_variable call on a graph, a variable of
\* which has a neighbour of degree 1
C12_Witness ==
    /\ last.op = "freeze_variable"
    /\ last.res[1] = "OutOfRangeVariable"
    /\ freezes = 2
    /\ Len(graphs[last.g].variables) >= 1
    /\ last.args[2] > Len(graphs[last.g].variables)
    /\ \E v \in 1..Len(graphs[last.g].variables) :
          \E k \in 1..VarDegree(graphs[last.g].variables[v]) :
             LET f == graphs[last.g].variables[v].fac_node_indices[k] + 1
             IN graphs[last.g].factors[f].factor.kind \in {"UnitFactor", "FakeFactor"}
                /\ FacDegree(graphs[last.g].factors[f]) = 1

----------------------------------------------------------------------------
(* The effect of a successful freeze_variable *)

\* the builder of the test small_factor_graph_builder_logic: four variables
\* and factors on {0,1,3}, {1,2}, {3,1}
ExampleBuilder(moved) ==
    LET b1 == AddFactorOp(NewBuilder(4), FakeFactor(3), <<0, 1, 3>>, 0, 0, moved)
        b2 == AddFactorOp(b1.g, FakeFactor(2), <<1, 2>>, 0, b1.calls, moved)
        b3 == AddFactorOp(b2.g, FakeFactor(2), <<3, 1>>, 0, b2.calls, moved)
    IN b3.g

\* the test's graph: built, then variables 0..3 frozen to 0..3
ExampleGraph(moved) ==
    LET g0 == BuildOp(1, ExampleBuilder(moved))
        g1 == FreezeOp(1, g0, "Fake", 0, 0, moved).g
        g2 == FreezeOp(1, g1, "Fake", 1, 1, moved).g
        g3 == FreezeOp(1, g2, "Fake", 2, 2, moved).g
    IN FreezeOp(1, g3, "Fake", 3, 3, moved).g

\* FactorGraph::get_variable_degrees
GetVariableDegrees(g) == [v \in 1..Len(g.variables) |-> VarDegree(g.variables[v])]

\* FactorGraph::get_factor_degrees
GetFactorDegrees(g) == [f \in 1..Len(g.factors) |-> FacDegree(g.factors[f])]

\* index arrays and message values of a node, its handles left out
Incidence(node) == [node EXCEPT !.senders = <<>>, !.receivers = @.data]

\* g is the graph before, h is the graph after a successful
\* freeze_variable(value, v)
FreezeEffect(g, h, pt, value, v) ==
    LET nf == Len(g.factors)
        old == g.variables[v + 1]
        new == h.variables[v + 1]
        clamp == h.factors[nf + 1]
        m == SampleToMessage(pt, value)
    IN /\ Len(h.factors) = nf + 1
       /\ Len(h.variables) = Len(g.variables)
       /\ FactorDegree(clamp.factor) = 1
       /\ FacDegree(clamp) = 1
       /\ Len(clamp.messages) = 1 /\ Len(clamp.senders) = 1
       /\ clamp.var_node_indices = <<v>>
       /\ clamp.var_node_receiver_indices = <<VarDegree(old)>>
       /\ VarDegree(new) = VarDegree(old) + 1
       /\ new.fac_node_indices = Append(old.fac_node_indices, nf)
       /\ new.fac_node_receiver_indices = Append(old.fac_node_receiver_indices, 0)
       /\ Len(new.messages) = Len(old.messages) + 1
       /\ Len(new.senders) = Len(old.senders) + 1
       /\ SubSeq(new.receivers.data, 1, VarDegree(old)) = old.receivers.data
       /\ SubSeq(new.messages, 1, Len(old.messages)) = old.messages
       /\ \A f \in 1..nf : Incidence(h.factors[f]) = Incidence(g.factors[f])
       /\ \A w \in 1..Len(g.variables) :
             w # v + 1 => Incidence(h.variables[w]) = Incidence(g.variables[w])

\* C13: a successful freeze_variable(value, v) appends one factor of degree
\* 1 at the end of the factor list, with var_node_indices = [v] and
\* var_node_receiver_indices = [degree of v before]; it appends one slot to
\* v, with factor index = number of factors before and receiver index 0; the
\* order, degrees, index arrays and message values of all other factors and
\* variables and of v's earlier slots are unchanged; no other graph changes.
\* The test's graph has variable degrees (2,4,2,3) and factor degrees
\* (3,2,2,1,1,1,1).
C13_FreezeEffect ==
    [][SuccessfulFreeze(last') =>
         /\ FreezeEffect(graphs[last'.g], graphs'[last'.g], ptype,
                         last'.args[1], last'.args[2])
         /\ \A gi \in DOMAIN graphs : gi # last'.g => graphs'[gi] = graphs[gi]
         /\ \A moved \in BOOLEAN :
               /\ GetVariableDegrees(ExampleGraph(moved)) = <<2, 4, 2, 3>>
               /\ GetFactorDegrees(ExampleGraph(moved)) = <<3, 2, 2, 1, 1, 1, 1>>
      ]_vars

\* the second successful freeze of a variable that has a builder factor:
\* the clamp's slot index is 2 and other factors exist
C13_Witness ==
    /\ SuccessfulFreeze(last)
    /\ Len(graphs[last.g].factors) >= 3
    /\ VarDegree(graphs[last.g].variables[last.args[2] + 1]) = 3
    /\ Last(graphs[last.g].factors).var_node_receiver_indices = <<2>>

----------------------------------------------------------------------------
(* The degree invariant *)

\* the arrays of every node have one length: a factor's the degree of its
\* payload, a variable's the degree it reports
DegreeInvariant(g) ==
    /\ \A f \in 1..Len(g.factors) :
          LET node == g.factors[f]
              d == FactorDegree(node.factor)
          IN /\ Len(node.receivers.data) = d
             /\ Len(node.messages) = d
             /\ Len(node.var_node_indices) = d
             /\ Len(node.var_node_receiver_indices) = d
             /\ Len(node.senders) = d
    /\ \A v \in 1..Len(g.variables) :
          LET node == g.variables[v]
              d == VarDegree(node)
          IN /\ Len(node.receivers.data) = d
             /\ Len(node.messages) = d
             /\ Len(node.fac_node_indices) = d
             /\ Len(node.fac_node_receiver_indices) = d
             /\ Len(node.senders) = d

\* C14: in every graph that build() returns, after any sequence of builder
\* calls, and after every freeze_variable, each factor's receivers, messages,
\* index arrays and senders have the length degree() of its payload, and each
\* variable's arrays have one common length, the degree it reports.
C14_DegreeInvariant ==
    stage = "graph" => \A gi \in DOMAIN graphs : DegreeInvariant(graphs[gi])

----------------------------------------------------------------------------
(* Clones *)

\* every handle of graph gi designates a live slot of graph gi itself
OwnStorage(gi) ==
    /\ \A f \in 1..Len(graphs[gi].factors) :
          \A k \in 1..Len(graphs[gi].factors[f].senders) :
             LET h == graphs[gi].factors[f].senders[k]
             IN h.g = gi /\ h.side = "v" /\ Live(h)
    /\ \A v \in 1..Len(graphs[gi].variables) :
          \A k \in 1..Len(graphs[gi].variables[v].senders) :
             LET h == graphs[gi].variables[v].senders[k]
             IN h.g = gi /\ h.side = "f" /\ Live(h)

\* a step of a call on one graph leaves every other graph as it was
OtherGraphsKept ==
    LET target == IF run.pc # "idle" THEN run.g ELSE last'.g
    IN \A gi \in DOMAIN graphs :
          (gi \in DOMAIN graphs' /\ gi # target) => graphs'[gi] = graphs[gi]

\* C15: after g2 = g.clone() every handle of g2 designates a slot of g2's own
\* storage, g2 is edge symmetric and its handles are bound to the slots its
\* index arrays name; and every step of a later run_message_passing_parallel,
\* freeze_variable or sample on one of the two graphs leaves the other
\* graph's nodes (messages, index arrays, handles) unchanged.
C15_CloneIndependence ==
    /\ [](last.op = "clone" =>
            /\ OwnStorage(last.g)
            /\ EdgeSymmetric(graphs[last.g])
            /\ HandlesBound(last.g))
    /\ [][OtherGraphsKept]_vars

\* a graph with a coupling and its clone: a run has changed the messages of
\* the first, then the second has been frozen and sampled
C15_Witness ==
    /\ Len(graphs) = 2
    /\ last.op = "sample" /\ last.g = 2
    /\ freezes = 1
    /\ Len(graphs[1].factors) >= 1
    /\ FacDegree(graphs[1].factors[1]) = 2
    /\ run # Idle /\ run.g = 1 /\ Len(run.snaps) >= 1
    /\ MessageState(graphs[1]) # MessageState(run.atCall)
    /\ Len(graphs[2].factors) > Len(graphs[1].factors)

\* IsingVariable::marginal: [p_up, 1 - p_up] with p_up = sigmoid(all_sum),
\* the sigmoid left uninterpreted
IsingVariableMarginal(messages) ==
    LET p_up == <<"sigmoid", SumSeq(messages)>>
    IN <<p_up, <<"1 -", p_up>>>>

\* the nodes of a graph without their addresses
Content(g) ==
    [factors   |-> [f \in 1..Len(g.factors) |-> Incidence(g.factors[f])],
     variables |-> [v \in 1..Len(g.variables) |-> Incidence(g.variables[v])]]

RunArguments(r) == <<r.max_iter, r.min_iter, r.threshold, r.fgamma, r.vgamma>>

\* the message state a run has left behind
FinalState(r) ==
    IF r.snaps = <<>> THEN MessageState(r.atCall) ELSE r.snaps[Len(r.snaps)]

\* the marginals of the variables read from a message state
MarginalsOf(state) ==
    [v \in 1..Len(state.variables) |-> IsingVariableMarginal(state.variables[v][2])]

\* the latest two runs were called with the same arguments on the two
\* graphs, which held the same nodes when the runs were called
TwinRuns ==
    /\ run # Idle /\ run.prev # Idle
    /\ run.g # run.prev.g
    /\ RunArguments(run) = RunArguments(run.prev)
    /\ Content(run.atCall) = Content(run.prev.atCall)

\* C16: a run on a graph and a run with the same arguments on its clone
\* leave, after every iteration, the same message state and the same
\* discrepancy in the history, and return the same result, hence equal
\* marginals, however the tasks of either run are interleaved.
C16_CloneDeterminism ==
    TwinRuns =>
        /\ Len(run.snaps) <= Len(run.prev.snaps)
        /\ \A k \in 1..Len(run.snaps) : run.snaps[k] = run.prev.snaps[k]
        /\ Len(run.hist) <= Len(run.prev.hist)
        /\ \A k \in 1..Len(run.hist) : run.hist[k] = run.prev.hist[k]
        /\ run.pc = "idle" =>
              /\ run.snaps = run.prev.snaps
              /\ run.hist = run.prev.hist
              /\ run.res = run.prev.res
              /\ MarginalsOf(FinalState(run)) = MarginalsOf(FinalState(run.prev))

\* both runs have returned after two iterations that changed the messages
C16_Witness ==
    /\ TwinRuns
    /\ run.pc = "idle"
    /\ Len(run.snaps) = 2
    /\ run.snaps[1] # MessageState(run.atCall)
    /\ run.snaps[2] # run.snaps[1]
    /\ run.hist[1] > 0

----------------------------------------------------------------------------
(* sample *)

\* the arguments of the latest call of sample, as run_message_passing_parallel
\* receives them
SampleArguments ==
    [max_iter |-> last.args[1], min_iter |-> last.args[2],
     threshold |-> last.args[3], fgamma |-> last.args[4], vgamma |-> last.args[5]]

\* what run_message_passing_parallel returns on graph g
RunResult(g) == RunMessagePassing(<<g>>, 1, SampleArguments).res

\* the sum of the iteration counts reported by the first n steps
RECURSIVE EarlierIterations(_, _)
EarlierIterations(trace, n) ==
    IF n = 0 THEN 0 ELSE EarlierIterations(trace, n - 1) + trace[n].res[2]

\* C17: a successful sample on a graph with n_V variables returns n_V
\* samples, samples[i] being the value drawn for variable i, and n_V
\* iteration counts, the i-th being the count reported by the run on the graph
\* in which variable i had just been frozen; the total is the sum of the
\* counts. With n_V = 0 it returns empty lists and total 0 and leaves the
\* graph as it was.
C17_SampleResult ==
    (last.op = "sample" /\ last.res[1] = "Ok") =>
        LET n_V == Len(last.before.variables)
        IN /\ Len(last.res[2]) = n_V
           /\ Len(last.res[3]) = n_V
           /\ Len(last.trace) = n_V
           /\ \A i \in 1..n_V :
                 /\ last.res[2][i] = last.trace[i].sample
                 /\ RunResult(last.trace[i].frozen)[1] = "Ok"
                 /\ last.res[3][i] = RunResult(last.trace[i].frozen)[2]
           /\ last.res[4] = SumSeq(last.res[3])
           /\ n_V = 0 => /\ last.res = <<"Ok", <<>>, <<>>, 0>>
                         /\ graphs[last.g] = last.before

\* a successful sample of two variables whose runs report different counts
C17_Witness ==
    /\ last.op = "sample" /\ last.res[1] = "Ok"
    /\ Len(last.res[2]) = 2
    /\ last.res[3][1] # last.res[3][2]
    /\ last.res[2][1] # last.res[2][2]
    /\ last.res[4] >= 2

\* C18: when the run that follows the freeze of variable i fails, sample
\* returns SamplingError with variables_number = i, with the total of the
\* counts of the i earlier runs plus the count the failing run reports
\* (max_iter), and with the failing run's last discrepancy and history; the
\* variables after i have not been frozen.
C18_SampleFailure ==
    (last.op = "sample" /\ last.res[1] = "SamplingError") =>
        LET i == last.res[2]
            g == graphs[last.g]
        IN /\ Len(last.trace) = i + 1
           /\ \A k \in 1..i : RunResult(last.trace[k].frozen)[1] = "Ok"
           /\ LET failed == RunResult(last.trace[i + 1].frozen)
              IN /\ failed[1] = "MessagePassingError"
                 /\ failed[2] = last.args[1]
                 /\ last.res[3] = EarlierIterations(last.trace, i) + failed[2]
                 /\ last.res[4] = failed[3]
                 /\ last.res[5] = failed[4]
           /\ Len(g.factors) = Len(last.before.factors) + i + 1
           /\ \A v \in 1..Len(g.variables) :
                 VarDegree(g.variables[v])
                    = VarDegree(last.before.variables[v]) + (IF v <= i + 1 THEN 1 ELSE 0)

\* the run after the freeze of the second variable fails after the run
\* after the freeze of the first has reported a count
C18_Witness ==
    /\ last.op = "sample" /\ last.res[1] = "SamplingError"
    /\ last.res[2] = 1
    /\ last.trace[1].res[2] >= 1
    /\ last.args[1] >= 2
    /\ Len(last.res[5]) = last.args[1]

\* C19: sample visits the variables in index order; the value of variable i
\* is drawn from its incoming messages as they stand in the graph the
\* previous step has left (for i = 0 the graph sample was called on), then
\* the variable is frozen to that value, then message passing runs on the
\* frozen graph. After a successful sample every variable carries one more
\* factor, its own clamp to the value drawn, and the graph has n_V more
\* factors.
C19_DecimationOrder ==
    last.op = "sample" =>
        LET n_V == Len(last.before.variables)
            n_F == Len(last.before.factors)
            g == graphs[last.g]
        IN /\ \A i \in 1..Len(last.trace) :
                 LET step == last.trace[i]
                     before == IF i = 1 THEN last.before ELSE last.trace[i - 1].after
                 IN /\ step.before = before
                    /\ i > 1 => last.trace[i - 1].res[1] = "Ok"
                    /\ step.sample
                          = MaxProductSample(before.variables[i].receivers.data)
                    /\ Content(step.frozen)
                          = Content(FreezeOp(last.g, before, ptype, step.sample,
                                             i - 1, FALSE).g)
                    /\ Content(step.after)
                          = Content(RunMessagePassing(<<step.frozen>>, 1,
                                                      SampleArguments).gs[1])
           /\ Len(last.trace) > 0 => g = last.trace[Len(last.trace)].after
           /\ last.res[1] = "Ok" =>
                 /\ Len(last.trace) = n_V
                 /\ Len(g.factors) = n_F + n_V
                 /\ \A i \in 1..n_V :
                       /\ VarDegree(g.variables[i])
                             = VarDegree(last.before.variables[i]) + 1
                       /\ g.factors[n_F + i].var_node_indices = <<i - 1>>
                       /\ g.factors[n_F + i].factor
                             = FromMessage(ptype, SampleToMessage(ptype, last.res[2][i]))
                       /\ \A f \in 1..Len(g.factors) :
                             (f > n_F /\ f # n_F + i) =>
                                \A k \in 1..Len(g.factors[f].var_node_indices) :
                                   g.factors[f].var_node_indices[k] # i - 1

\* a successful sample of two coupled variables in a graph whose messages
\* the run after the first freeze has changed
C19_Witness ==
    /\ last.op = "sample" /\ last.res[1] = "Ok"
    /\ Len(last.trace) = 2
    /\ Len(last.before.factors) >= 1
    /\ MessageState(last.trace[1].after) # MessageState(last.trace[1].frozen)
    /\ last.trace[2].sample
          # MaxProductSample(last.before.variables[2].receivers.data)

----------------------------------------------------------------------------
(* The clamp factor *)

\* C20: the factor from_message(m) makes has degree 1, and each of its
\* send_messages leaves m itself in outgoing[0], whatever the incoming
\* message, the value outgoing[0] held and the hyper-parameters.
C20_ClampEmitsVerbatim ==
    /\ last.op \in {"from_message", "send_messages"} =>
          FactorDegree(last.factor) = 1
    /\ last.op = "send_messages" => last.dst = <<last.m>>

\* a second send with full damping, the incoming message and the previous
\* outgoing value both different from m
C20_Witness ==
    /\ last.op = "send_messages"
    /\ last.sends = 2
    /\ last.gamma = 1 /\ last.beta = 2
    /\ last.src # last.m
    /\ last.m = ClampMagnitude
    /\ last.dst = <<ClampMagnitude>>

----------------------------------------------------------------------------
(* Failed calls *)

\* C28: an add_factor that returns OutOfRangeVariable leaves the builder as
\* it was: the factor list, every variable's arrays and the number of calls
\* of the message initializer.
C28_FailedAddFactorKeepsBuilder ==
    [][(stage = "builder" /\ last'.op = "add_factor"
          /\ last'.res[1] = "OutOfRangeVariable")
       => (graphs' = graphs /\ initCalls' = initCalls)]_vars

\* C29: a freeze_variable that returns OutOfRangeVariable leaves the graph
\* as it was: the number of factors, the degrees, index arrays, messages and
\* handles.
C29_FailedFreezeKeepsGraph ==
    [][(stage = "graph" /\ last'.op = "freeze_variable"
          /\ last'.res[1] = "OutOfRangeVariable")
       => graphs' = graphs]_vars

----------------------------------------------------------------------------
(* Payload index bounds *)

\* C27: every index at which the payload of a factor of a graph reads or
\* writes its arrays in send_messages or marginal is smaller than the
\* payload's degree(), so that on a graph holding clamp factors no access
\* falls outside an array of length 1.
C27_PayloadIndexBounds ==
    \A gi \in DOMAIN graphs :
       \A f \in 1..Len(graphs[gi].factors) :
          LET payload == graphs[gi].factors[f].factor
          IN \A k \in FactorSendIndices(payload) \cup FactorMarginalIndices(payload) :
                k < FactorDegree(payload)

----------------------------------------------------------------------------
(* Payload rules *)

\* the sum of the entries of s other than entry k
SumOthers(s, k) == SumSeq([j \in 1..(Len(s) - 1) |-> IF j < k THEN s[j] ELSE s[j + 1]])

\* C23: the variable's send_messages sets outgoing[k], for every slot k, to
\* (1 - g) * (sum of all incoming - incoming[k]) + g * previous outgoing[k];
\* with g = 0 this is the sum of the incoming messages of the other slots
\* (0 for degree 1), each slot being left out for its own message only.
C23_VariableUpdateRule ==
    last.op = "variable_send_messages" =>
        /\ Len(last.dst) = Len(last.src)
        /\ \A k \in 1..Len(last.src) :
              /\ last.dst[k] = (1 - last.gamma) * SumOthers(last.src, k)
                                  + last.gamma * last.prev[k]
              /\ last.gamma = 0 => last.dst[k] = SumOthers(last.src, k)
        /\ (Len(last.src) = 1 /\ last.gamma = 0) => last.dst = <<0>>

\* three slots, two of them holding the same message, no damping
C23_Witness ==
    /\ last.op = "variable_send_messages"
    /\ Len(last.src) = 3 /\ last.gamma = 0
    /\ last.src[1] = last.src[2] /\ last.src[1] # 0 /\ last.src[3] # last.src[1]
    /\ last.dst[1] = last.src[2] + last.src[3]
    /\ last.prev[1] # last.dst[1]

\* C24: the coupling's new outgoing[0] does not depend on incoming[0] nor on
\* the previous outgoing[1], and the new outgoing[1] does not depend on
\* incoming[1] nor on the previous outgoing[0]: a send_messages that differs
\* only in incoming[k] gives the same outgoing[k].
C24_FactorLeaveOneOut ==
    last.op = "factor_send_messages" =>
        \A k \in 1..2, x \in -MaxMessageClamp..MaxMessageClamp :
           /\ FactorSendMessages(last.factor, [last.src EXCEPT ![k] = x],
                                 last.prev, last.parameters)[k] = last.dst[k]
           /\ FactorSendMessages(last.factor, last.src,
                                 [last.prev EXCEPT ![3 - k] = x],
                                 last.parameters)[k] = last.dst[k]

\* a coupling whose two outgoing messages differ and do depend on the other
\* slot's incoming message
C24_Witness ==
    /\ last.op = "factor_send_messages"
    /\ last.parameters.gamma = 0
    /\ last.dst[1] # last.dst[2]
    /\ last.src[1] # last.src[2]
    /\ \E x \in -MaxMessageClamp..MaxMessageClamp :
          FactorSendMessages(last.factor, [last.src EXCEPT ![2] = x],
                             last.prev, last.parameters)[1] # last.dst[1]

\* C25: sample gives +1 when the incoming messages sum to more than 0 and
\* -1 otherwise, a sum of 0 and the empty array included; the generator has
\* no part in the result and is left in its state.
C25_MaxProductSample ==
    last.op = "sample" =>
        /\ last.res = (IF SumOthers(<<0>> \o last.messages, 1) > 0 THEN 1 ELSE -1)
        /\ last.messages = <<>> => last.res = -1
        /\ last.rng_after = last.rng

\* a tie between a clamp message and its opposite
C25_Witness ==
    /\ last.op = "sample"
    /\ Len(last.messages) = 2
    /\ last.messages[1] = ClampMagnitude /\ last.messages[2] = -ClampMagnitude
    /\ last.res = -1
    /\ last.rng = 1

----------------------------------------------------------------------------
(* The discrepancy of an iteration *)

\* the greatest element of a finite set of numbers
MaxOf(S) == CHOOSE x \in S : \A y \in S : y <= x

\* the value a sender's slot held when the running phase began
SlotAtPhaseStart(h) == DerefIn([graphs EXCEPT ![run.g] = run.atPhase], h)

\* the discrepancy of the n-th node of the running phase, between the
\* messages it has computed and the values its destination slots held when
\* the phase began
DiscrepancyBeforeDelivery(n) ==
    LET node == NodeOf(graphs, run.g, Side(run), n)
    IN MaxOf({0} \cup {Discrepancy(node.messages[k], SlotAtPhaseStart(node.senders[k])) :
                          k \in 1..Len(node.messages)})

\* C30: once a node's task has evaluated its discrepancy, that discrepancy is
\* the greatest distance between a message the node has just computed and the
\* value its destination slot held before any delivery of this phase, which
\* is the message the node staged before (delivered in the previous
\* iteration, or the initial value); it is 0 for a node without neighbours.
\* The factor phase reduces to the greatest of its nodes' discrepancies, and
\* the entry an iteration appends to the history is the greatest of all its
\* nodes' discrepancies, never negative.
C30_DiscrepancyBeforeDelivery ==
    /\ [](Running =>
            \A n \in DOMAIN run.tpc :
               LET staged == NodesOf(run.atPhase, Side(run))[n]
               IN /\ run.tpc[n] \in {"send", "done"} =>
                        /\ run.tdisc[n] = DiscrepancyBeforeDelivery(n)
                        /\ run.tdisc[n] >= 0
                        /\ Len(staged.messages) = 0 => run.tdisc[n] = 0
                  /\ \A k \in 1..Len(staged.messages) :
                        SlotAtPhaseStart(staged.senders[k]) = staged.messages[k])
    /\ [][/\ (run.pc = "factors" /\ run'.pc = "variables") =>
               run'.fdisc = MaxOf({0} \cup {run.tdisc[n] : n \in DOMAIN run.tdisc})
          /\ (Running /\ run'.hist # run.hist) =>
               /\ Len(run'.hist) = Len(run.hist) + 1
               /\ Last(run'.hist)
                     = MaxOf({0, run.fdisc} \cup {run.tdisc[n] : n \in DOMAIN run.tdisc})
               /\ Last(run'.hist) >= 0]_vars

\* in a later iteration a variable with a neighbour has delivered messages
\* that differ from those it delivered before
C30_Witness ==
    /\ run.pc = "variables" /\ run.i >= 1
    /\ \E n \in DOMAIN run.tpc :
          /\ run.tpc[n] = "done"
          /\ run.tdisc[n] > 0
          /\ run.tdisc[n] = DiscrepancyBeforeDelivery(n)
          /\ EvalDiscrepancy(graphs, run.g, "v", n) = 0

----------------------------------------------------------------------------
(* Panics *)

\* C26: no call panics but a freeze_variable whose clamp factor reports a
\* degree other than 1; every other failure, whatever the index and the
\* sample, comes back as an error value.
C26_OnlyDegreePanic ==
    last.res[1] = "panic" => last.res[2] = "Factor degree must be 1"

----------------------------------------------------------------------------
(* The marginal of a frozen variable *)

\* the samples the variable of index v (from 0) of graph g is clamped to, one
\* for each clamp factor attached to it
ClampedTo(g, v) ==
    {<<f, IF g.factors[f].factor.m > 0 THEN 1 ELSE -1>> :
        f \in {f \in 1..Len(g.factors) :
                 /\ g.factors[f].factor.kind = "UnitFactor"
                 /\ g.factors[f].var_node_indices = <<v>>}}

\* the marginal [p_up, 1 - p_up] puts mass 1, within 1e-8, on the entry of
\* sample s
MassOn(marginal, s) ==
    IF s = 1 THEN marginal[1][2] >= SigmoidOne ELSE marginal[1][2] <= -SigmoidOne

\* C21: when a variable frozen once, to s, goes through a run, the clamp
\* message outweighs the other messages incoming to it after every iteration,
\* and after a converged run its marginal puts mass 1 on the entry of s
\* (entry 0 for s = 1, entry 1 for s = -1).
C21_FrozenMarginal ==
    (run # Idle /\ run.pc = "idle") =>
        \A v \in 1..Len(run.atCall.variables) :
           \A c \in ClampedTo(run.atCall, v - 1) :
              Cardinality(ClampedTo(run.atCall, v - 1)) = 1 =>
                 /\ \A k \in 1..Len(run.snaps) :
                       MassOn(IsingVariableMarginal(run.snaps[k].variables[v][2]), c[2])
                 /\ run.res[1] = "Ok" =>
                       MassOn(MarginalsOf(FinalState(run))[v], c[2])

\* a variable coupled to another, frozen to -1 against an incoming message
\* above 0, after a run that converged in its second iteration or later
C21_Witness ==
    /\ run # Idle /\ run.pc = "idle" /\ run.res[1] = "Ok" /\ run.res[2] >= 1
    /\ \E v \in 1..Len(run.atCall.variables) :
          /\ ClampedTo(run.atCall, v - 1) # {}
          /\ \A c \in ClampedTo(run.atCall, v - 1) : c[2] = -1
          /\ VarDegree(run.atCall.variables[v]) = 2
          /\ SumSeq(FinalState(run).variables[v][2]) > -ClampMagnitude
          /\ graphs[run.g].variables[v].receivers.data = FinalState(run).variables[v][2]

----------------------------------------------------------------------------
(* Convergence on trees *)

\* the nodes of the factor graph g, variables and factors alike
GraphNodes(g) ==
    {<<"v", v>> : v \in 1..Len(g.variables)} \cup {<<"f", f>> : f \in 1..Len(g.factors)}

\* the nodes one edge away from node n
Neighbours(g, n) ==
    IF n[1] = "f"
    THEN {<<"v", g.factors[n[2]].var_node_indices[k] + 1>> :
             k \in 1..Len(g.factors[n[2]].var_node_indices)}
    ELSE {<<"f", g.variables[n[2]].fac_node_indices[k] + 1>> :
             k \in 1..Len(g.variables[n[2]].fac_node_indices)}

\* the nodes at most r edges away from node n
RECURSIVE Ball(_, _, _)
Ball(g, n, r) ==
    IF r = 0
    THEN {n}
    ELSE LET B == Ball(g, n, r - 1)
         IN B \cup UNION {Neighbours(g, m) : m \in B}

\* g is connected and has one edge less than it has nodes
IsTree(g) ==
    /\ \A n \in GraphNodes(g) : Ball(g, n, Cardinality(GraphNodes(g))) = GraphNodes(g)
    /\ SumSeq(GetFactorDegrees(g)) = Cardinality(GraphNodes(g)) - 1

\* the greatest number of edges between two nodes of the tree g
Diameter(g) ==
    Least({r \in 0..Cardinality(GraphNodes(g)) :
              \A n \in GraphNodes(g) : Ball(g, n, r) = GraphNodes(g)})

\* the graphs after the iterations i .. n - 1 without damping
RECURSIVE Iterated(_, _, _, _)
Iterated(gs, gi, i, n) ==
    IF i >= n
    THEN gs
    ELSE Bind(SequentialIteration(gs, gi, 0, 0, i),
              LAMBDA it : Iterated(it.gs, gi, i + 1, n))

\* n messages of value 0
RECURSIVE ZeroSeq(_)
ZeroSeq(n) == IF n = 0 THEN <<>> ELSE Append(ZeroSeq(n - 1), 0)

\* the nodes with every staged message and every incoming slot at 0
RECURSIVE ZeroNodes(_)
ZeroNodes(nodes) ==
    IF nodes = <<>>
    THEN <<>>
    ELSE <<[Head(nodes) EXCEPT !.messages = ZeroSeq(Len(@)),
                               !.receivers.data = ZeroSeq(Len(@))]>>
            \o ZeroNodes(Tail(nodes))

\* the graph g with every message at 0
ZeroMessages(g) == [g EXCEPT !.factors = ZeroNodes(@), !.variables = ZeroNodes(@)]

----------------------------------------------------------------------------
(* Staged and delivered messages *)

\* no task of the run has begun in the current iteration: the call has not
\* begun its first iteration or the iteration before this one is complete
IterationBoundary == run.pc = "factors" /\ \A n \in DOMAIN run.tpc : run.tpc[n] = "eval"

\* C31: after build, after clone, after every successful freeze_variable and
\* after every complete iteration of a run, on every edge and in both
\* directions the message staged by the sender equals the value in the
\* incoming slot that the sender's handle designates.
C31_StagedEqualsDelivered ==
    \A gi \in DOMAIN graphs :
       (/\ stage = "graph"
        /\ last.op \in {"build", "clone", "freeze_variable", "run_message_passing_parallel"}
        /\ last.res[1] # "OutOfRangeVariable"
        /\ (run.pc = "idle" \/ run.g # gi \/ IterationBoundary))
          => /\ AllDelivered(graphs[gi].factors)
             /\ AllDelivered(graphs[gi].variables)

\* the second iteration of a run on a clone with a coupling and a clamp
\* begins, the first having changed a message
C31_Witness ==
    /\ IterationBoundary
    /\ run.i = 1
    /\ run.g = 2
    /\ Len(graphs[2].factors) = 2
    /\ graphs[2].factors[2].factor.kind = "UnitFactor"
    /\ MessageState(graphs[2]) # MessageState(run.atCall)

----------------------------------------------------------------------------
(* Initial messages *)

\* C32: a successful add_factor with d neighbours calls the initializer
\* exactly 2 * d times, twice in a row for each neighbour in list order; for
\* the k-th neighbour the first value is the factor's k-th incoming slot and
\* the variable's staged message of the new edge, the second is the factor's
\* k-th staged message and the variable's incoming slot of the new edge; and
\* no handle of the builder is set.
C32_InitialMessages ==
    [][(last'.op = "add_factor" /\ last'.res[1] = "Ok") =>
          LET b == graphs'[1]
              var_indices == last'.args[2]
              d == Len(var_indices)
              f == b.factors[Len(b.factors)]
          IN /\ initCalls' = initCalls + 2 * d
             /\ Len(b.factors) = Len(graphs[1].factors) + 1
             /\ Len(f.receivers.data) = d /\ Len(f.messages) = d /\ Len(f.senders) = d
             /\ \A k \in 1..d :
                   LET first == InitMessage(initSeed, initCalls + 2 * (k - 1))
                       second == InitMessage(initSeed, initCalls + 2 * (k - 1) + 1)
                       v == b.variables[var_indices[k] + 1]
                       slot == f.var_node_receiver_indices[k] + 1
                   IN /\ v.fac_node_indices[slot] = Len(b.factors) - 1
                      /\ v.fac_node_receiver_indices[slot] = k - 1
                      /\ f.receivers.data[k] = first
                      /\ v.messages[slot] = first
                      /\ f.messages[k] = second
                      /\ v.receivers.data[slot] = second
             /\ \A n \in 1..Len(b.factors) : \A k \in 1..Len(b.factors[n].senders) :
                   b.factors[n].senders[k] = NullPtr
             /\ \A n \in 1..Len(b.variables) : \A k \in 1..Len(b.variables[n].senders) :
                   b.variables[n].senders[k] = NullPtr]_vars

\* a second factor has been added with two neighbours, the initializer
\* having given the two slots of the first neighbour different values
C32_Witness ==
    /\ stage = "builder"
    /\ last.op = "add_factor"
    /\ last.res[1] = "Ok"
    /\ Len(last.args[2]) = 2
    /\ Len(graphs[1].factors) = 2
    /\ initCalls >= 6
    /\ graphs[1].factors[2].receivers.data[1] # graphs[1].factors[2].messages[1]

----------------------------------------------------------------------------
(* The messages of a new clamp *)

\* C33: right after a successful freeze_variable(value, v) the last incoming
\* slot of v, the clamp's staged message, the clamp's incoming slot and v's
\* new staged message all hold sample_to_message(value); the clamp's handle
\* designates v's last incoming slot and v's last handle designates the
\* clamp's incoming slot.
C33_ClampMessages ==
    SuccessfulFreeze(last) =>
       LET g == graphs[last.g]
           v == last.args[2]
           variable == g.variables[v + 1]
           clamp == Last(g.factors)
           message == SampleToMessage(ptype, last.args[1])
       IN /\ Last(variable.receivers.data) = message
          /\ clamp.messages = <<message>>
          /\ clamp.receivers.data = <<message>>
          /\ Last(variable.messages) = message
          /\ Len(variable.messages) = VarDegree(variable)
          /\ Designates(clamp.senders[1], last.g, "v", v, VarDegree(variable) - 1)
          /\ Deref(clamp.senders[1]) = message
          /\ Designates(Last(variable.senders), last.g, "f", Len(g.factors) - 1, 0)
          /\ Deref(Last(variable.senders)) = message

\* a variable of an Ising clone is frozen to -1 and has three slots then
C33_Witness ==
    /\ SuccessfulFreeze(last)
    /\ last.g = 2
    /\ last.args[1] = -1
    /\ VarDegree(graphs[2].variables[last.args[2] + 1]) = 3
    /\ Last(graphs[2].variables[last.args[2] + 1].receivers.data) = -ClampMagnitude
----------------------------------------------------------------------------
(* Construction paths agree *)

\* the node counts, the degrees and the four index arrays of a graph
Arrays(g) ==
    [factors_number |-> Len(g.factors),
     variables_number |-> Len(g.variables),
     factor_degrees |-> GetFactorDegrees(g),
     variable_degrees |-> GetVariableDegrees(g),
     var_ix |-> [f \in DOMAIN g.factors |-> g.factors[f].var_node_indices],
     var_slot |-> [f \in DOMAIN g.factors |->
                      g.factors[f].var_node_receiver_indices],
     fac_ix |-> [v \in DOMAIN g.variables |->
                    g.variables[v].fac_node_indices],
     fac_slot |-> [v \in DOMAIN g.variables |->
                      g.variables[v].fac_node_receiver_indices]]

\* C34: a builder created with its variables and a builder created empty and
\* filled by add_variable, given the same add_factor calls and after build()
\* the same freeze_variable calls, have identical node counts, degrees and
\* var_ix / var_slot / fac_ix / fac_slot arrays, the calls return the same
\* results, and the clones of both graphs have these arrays too
C34_ConstructionPathsAgree ==
    PathsFilled =>
        /\ last.twin = last.res
        /\ \A gi \in DOMAIN graphs : Arrays(graphs[gi]) = Arrays(graphs[1])

\* both paths were built with two factors and cloned, then a variable was
\* frozen on all four graphs and a second freeze_variable was out of range
C34_Witness ==
    /\ stage = "graph"
    /\ Len(graphs) = 4
    /\ Len(graphs[2].factors) = 3
    /\ freezes = 2
    /\ last.op = "freeze_variable"
    /\ last.res[1] # "Ok"
    /\ \E v \in DOMAIN graphs[4].variables :
          Len(graphs[4].variables[v].fac_node_indices) >= 2

----------------------------------------------------------------------------
(* Iteration bounds *)

\* no task has begun more than max_iter times; a call that has returned has
\* performed n <= max_iter complete iterations, n >= max(1, min_iter) if it
\* returned Ok, and it returned the error if min_iter > max_iter
IterationsBounded ==
    /\ Running =>
          /\ run.i < run.max_iter
          /\ \A f \in DOMAIN run.started.f : run.started.f[f] <= run.i + 1
          /\ \A v \in DOMAIN run.started.v : run.started.v[v] <= run.i + 1
    /\ Returned =>
          /\ \E n \in 0..run.max_iter :
                /\ Performed(run, n)
                /\ Len(last.res[4]) = n
                /\ last.res[1] = "Ok" =>
                      /\ n >= Max(1, run.min_iter)
                      /\ n = last.res[2] + 1
          /\ run.min_iter > run.max_iter => last.res[1] = "MessagePassingError"

\* C35: run_message_passing_parallel returns Ok only after at least
\* max(1, min_iter) and at most max_iter complete iterations, every call
\* returns, after at most max_iter iterations, and with min_iter > max_iter
\* it returns the error whatever the graph and the threshold, also when the
\* discrepancy is below the threshold.
C35_IterationBounds == []IterationsBounded /\ (Running ~> Returned)

\* the error with min_iter > max_iter although the last iteration changed no
\* message and the threshold is positive
C35_Witness ==
    /\ Returned
    /\ run.min_iter > run.max_iter
    /\ run.max_iter >= 2
    /\ last.res[1] = "MessagePassingError"
    /\ last.res[3] = 0
    /\ last.res[3] < run.threshold
    /\ Performed(run, run.max_iter)

----------------------------------------------------------------------------
(* No iterations *)

\* C36: a call with max_iter = 0 returns at once, with no task of any node
\* begun (hence no iteration and no scheduler call, the schedulers being
\* called at the head of an iteration), no message changed, and the error
\* with iterations = 0, an empty history and last_discrepancy = f64::MAX,
\* the value the variable was initialised with.
C36_ZeroIterations ==
    [][(runs' = runs + 1 /\ last'.args[1] = 0) =>
          /\ last'.op = "run_message_passing_parallel"
          /\ last'.res = <<"MessagePassingError", 0, F64Max, <<>>>>
          /\ graphs' = graphs
          /\ run'.pc = "idle"
          /\ run'.hist = <<>>
          /\ run'.last_discrepancy = F64Max
          /\ run'.snaps = <<>>
          /\ Performed(run', 0)]_vars

\* a call with max_iter = 0 and a positive threshold has returned on a graph
\* with a coupling and a clamp
C36_Witness ==
    /\ Returned
    /\ run.max_iter = 0
    /\ run.threshold > 0
    /\ Len(graphs[run.g].factors) >= 2
    /\ freezes > 0
    /\ last.res[3] = F64Max

----------------------------------------------------------------------------
(* Message passing keeps the topology *)

\* a graph without its message values: the payloads, the index arrays, the
\* handles, and the length, storage and capacity of the message arrays
Frame(g) ==
    [factors   |-> [f \in 1..Len(g.factors) |->
                      [g.factors[f] EXCEPT !.messages = Len(@),
                                           !.receivers.data = Len(@)]],
     variables |-> [v \in 1..Len(g.variables) |->
                      [g.variables[v] EXCEPT !.messages = Len(@),
                                             !.receivers.data = Len(@)]]]

\* the graphs after iterations i .. n - 1 run one node after the other
RECURSIVE IteratedWith(_, _, _, _, _, _)
IteratedWith(gs, gi, fgamma, vgamma, i, n) ==
    IF i >= n
    THEN gs
    ELSE Bind(SequentialIteration(gs, gi, fgamma, vgamma, i),
              LAMBDA it : IteratedWith(it.gs, gi, fgamma, vgamma, i + 1, n))

\* C37: during and after every call of run_message_passing_parallel, Ok or
\* Err, the graph has the factors, variables, degrees, index arrays,
\* payloads and handles it had at the call; only message values differ, and
\* at the return, Ok or Err, they are the values the iterations performed
\* have left, none being restored.
C37_TopologyKept ==
    (Running \/ Returned) =>
        /\ Frame(graphs[run.g]) = Frame(run.atCall)
        /\ GetFactorDegrees(graphs[run.g]) = GetFactorDegrees(run.atCall)
        /\ GetVariableDegrees(graphs[run.g]) = GetVariableDegrees(run.atCall)
        /\ Returned =>
              graphs[run.g] =
                  IteratedWith([graphs EXCEPT ![run.g] = run.atCall], run.g,
                               run.fgamma, run.vgamma, 0, Len(last.res[4]))[run.g]

\* the error after two iterations that changed the messages of a graph with
\* a coupling and a clamp
C37_Witness ==
    /\ Returned
    /\ last.res[1] = "MessagePassingError"
    /\ Len(last.res[4]) >= 2
    /\ last.res[3] > 0
    /\ freezes > 0
    /\ Len(graphs[run.g].factors) >= 2
    /\ MessageState(graphs[run.g]) # MessageState(run.atCall)

----------------------------------------------------------------------------
(* A failed sample keeps its clamps *)

\* C38: when sample returns SamplingError with variables_number = i, the
\* graph holds exactly i + 1 factors more than before the call, the k-th of
\* them the clamp of variable k to the value drawn for it, k = 0 .. i, wired
\* to one new last slot of that variable; the earlier factors and the
\* variables after i have the index arrays and degrees they had; and edge
\* symmetry, the degree invariant and handle validity hold.
C38_NoRollbackOnSamplingFailure ==
    (last.op = "sample" /\ last.res[1] = "SamplingError") =>
        LET i == last.res[2]
            g == graphs[last.g]
            b == last.before
            nb == Len(b.factors)
        IN /\ Len(g.factors) = nb + i + 1
           /\ Len(g.variables) = Len(b.variables)
           /\ i < Len(g.variables)
           /\ Len(last.trace) = i + 1
           /\ \A k \in 0..i :
                 LET clamp == g.factors[nb + k + 1]
                     old == b.variables[k + 1]
                     new == g.variables[k + 1]
                     value == last.trace[k + 1].sample
                 IN /\ clamp.factor = FromMessage(ptype, SampleToMessage(ptype, value))
                    /\ <<nb + k + 1, value>> \in ClampedTo(g, k)
                    /\ clamp.var_node_indices = <<k>>
                    /\ clamp.var_node_receiver_indices = <<VarDegree(old)>>
                    /\ VarDegree(new) = VarDegree(old) + 1
                    /\ new.fac_node_indices = Append(old.fac_node_indices, nb + k)
                    /\ new.fac_node_receiver_indices
                          = Append(old.fac_node_receiver_indices, 0)
           /\ \A f \in 1..nb :
                 /\ g.factors[f].factor = b.factors[f].factor
                 /\ g.factors[f].var_node_indices = b.factors[f].var_node_indices
                 /\ g.factors[f].var_node_receiver_indices
                       = b.factors[f].var_node_receiver_indices
           /\ \A v \in (i + 2)..Len(g.variables) :
                 /\ VarDegree(g.variables[v]) = VarDegree(b.variables[v])
                 /\ g.variables[v].fac_node_indices = b.variables[v].fac_node_indices
                 /\ g.variables[v].fac_node_receiver_indices
                       = b.variables[v].fac_node_receiver_indices
           /\ EdgeSymmetric(g)
           /\ DegreeInvariant(g)
           /\ HandlesValid(last.g)

\* sample failed at variable 0 of a graph of two variables joined by a
\* coupling, after iterations that were run
C38_Witness ==
    /\ last.op = "sample" /\ last.res[1] = "SamplingError"
    /\ last.res[2] = 0
    /\ last.args[1] >= 1
    /\ Len(graphs[last.g].variables) = 2
    /\ VarDegree(last.before.variables[2]) >= 1
    /\ VarDegree(graphs[last.g].variables[1]) >= 2

----------------------------------------------------------------------------
(* Repeated freezing *)

\* edge symmetry, the degree invariant, unique destination slots and handle
\* validity of graph gi
Sound(gi) ==
    /\ EdgeSymmetric(graphs[gi])
    /\ DegreeInvariant(graphs[gi])
    /\ UniqueDestinations(gi)
    /\ HandlesValid(gi)

\* the variables of g that some clamp factor names
Clamped(g) == {v \in 0..(Len(g.variables) - 1) : ClampedTo(g, v) # {}}

\* C39: a freeze_variable of a variable that is already clamped appends one
\* further clamp factor and one further slot, as a first freeze does; a
\* sample on a graph with clamped variables appends one clamp and one slot
\* per variable it freezes, its runs changing no array; and edge symmetry,
\* the degree invariant, unique destination slots and handle validity hold
\* after the call.
C39_RepeatedFreezing ==
    [][/\ (SuccessfulFreeze(last') /\ last'.args[2] \in Clamped(graphs[last'.g])) =>
             /\ FreezeEffect(graphs[last'.g], graphs'[last'.g], ptype,
                             last'.args[1], last'.args[2])
             /\ Cardinality(ClampedTo(graphs'[last'.g], last'.args[2]))
                   = Cardinality(ClampedTo(graphs[last'.g], last'.args[2])) + 1
             /\ \A gi \in DOMAIN graphs' : Sound(gi)'
       /\ (last'.op = "sample" /\ runs' = runs + 1
              /\ Clamped(graphs[last'.g]) # {}) =>
             LET t == last'.trace
             IN /\ Len(t) >= 1
                /\ t[1].before = graphs[last'.g]
                /\ t[Len(t)].after = graphs'[last'.g]
                /\ \A k \in 1..Len(t) :
                      /\ k > 1 => t[k].before = t[k - 1].after
                      /\ FreezeEffect(t[k].before, t[k].frozen, ptype,
                                      t[k].sample, k - 1)
                      /\ Frame(t[k].after) = Frame(t[k].frozen)
                /\ Len(graphs'[last'.g].factors)
                      = Len(graphs[last'.g].factors) + Len(t)
                /\ \A v \in 1..Len(graphs[last'.g].variables) :
                      VarDegree(graphs'[last'.g].variables[v])
                         = VarDegree(graphs[last'.g].variables[v])
                              + (IF v <= Len(t) THEN 1 ELSE 0)
                /\ \A gi \in DOMAIN graphs' : Sound(gi)'
      ]_vars

\* variable 0 of two coupled variables was frozen twice directly, to
\* different values, and then sampled twice, the second sample returning Ok
C39_Witness ==
    /\ last.op = "sample"
    /\ last.res[1] = "Ok"
    /\ freezes = 2
    /\ runs = 2
    /\ Len(graphs[1].variables) = 2
    /\ graphs[1].factors[1].factor.kind = "Coupling"
    /\ {c[2] : c \in ClampedTo(last.before, 0)} = {1, -1}
    /\ Cardinality(ClampedTo(last.before, 0)) >= 3
    /\ Cardinality(ClampedTo(graphs[1], 0)) >= 4
    /\ Cardinality(ClampedTo(graphs[1], 1)) >= 1

====
